---- MODULE Spec2Model ----
(***************************************************************************)
(* Model of paccolamano/golazy, package handlers/qparams: the process-wide *)
(* defaults and their setters, the functional options and NewSearchHandler *)
(* (configuration resolver), validateSearchRequest (validator) and the     *)
(* middleware returned by NewSearchHandler (pipeline adapter).             *)
(*                                                                         *)
(* Go maps are reference values.  The four allow-set maps are allocated    *)
(* once (qparams.go:102, 166, 347, 351); every other variable or struct    *)
(* field of map type holds a reference to one of them.  The model keeps    *)
(* the map contents in the heap variable `maps`, indexed by the name of    *)
(* the allocation, and map-typed variables and fields hold such a name.    *)
(***************************************************************************)
EXTENDS Integers, Sequences, FiniteSets, TLC

(***************************************************************************)
(* Bounds of the model.                                                    *)
(***************************************************************************)
\* longest variadic argument list given to a setter or an option
MaxArgs == 1
\* longest option list given to NewSearchHandler
MaxOpts == 2
\* number of handlers constructed
MaxHandlers == 2
\* number of SetDefault* calls made
MaxSetCalls == 1
\* largest limit ceiling configured
MaxLimit == 1
\* most nodes (groups and filters) in the filter tree of a validated request
MaxNodes == 3
\* most order clauses of a validated request
MaxOrder == 2
\* most nodes in the filter tree of a payload sent through the middleware
MaxWireNodes == 2

\* tokens and names the bounded inputs are drawn from
QueryParams == {"q", "s"}
QueryParamArgs == {"s"}
FieldNames == {"id", "email"}
LogicalTokens == {"and", "xor"}
RelationalTokens == {"eq", "regex"}
ErrorHandlerArgs == {"customErrorHandler"}
LimitArgs == (0 - 1)..MaxLimit

(***************************************************************************)
(* Optional values (Go pointers that are nil or point to a private copy).  *)
(***************************************************************************)
None == <<>>
Some(v) == <<v>>
IsSome(o) == o # <<>>
Get(o) == o[1]

Range(seq) == {seq[i] : i \in DOMAIN seq}

RECURSIVE SeqsUpTo(_, _)
SeqsUpTo(S, n) ==
    IF n = 0 THEN {<<>>}
    ELSE LET shorter == SeqsUpTo(S, n - 1)
         IN  shorter \cup {Append(q, e) : q \in shorter, e \in S}

(***************************************************************************)
(* Operator registry.                                                      *)
(***************************************************************************)
AndOperator == "and"
OrOperator == "or"
EqualsOperator == "eq"
NotEqualsOperator == "ne"
GreaterThanOperator == "gt"
GreaterThanEqualsOperator == "gte"
LowerThanOperator == "lt"
LowerThanEqualsOperator == "lte"
LikeOperator == "like"
ILikeOperator == "ilike"
InOperator == "in"

\* initial contents of the two registry maps
logicalOperators == {AndOperator, OrOperator}
relationalOperators ==
    {EqualsOperator, NotEqualsOperator, GreaterThanOperator,
     GreaterThanEqualsOperator, LowerThanOperator, LowerThanEqualsOperator,
     LikeOperator, ILikeOperator, InOperator}

(***************************************************************************)
(* Map references.  defaultLogicalOperators and defaultRelationalOperators *)
(* are initialised with the registry maps themselves, not with copies.     *)
(***************************************************************************)
defaultLogicalOperators == "logicalOperators"
defaultRelationalOperators == "relationalOperators"
defaultFilterFields == "defaultFilterFields"
defaultOrderFields == "defaultOrderFields"
MapRefs ==
    {defaultLogicalOperators, defaultRelationalOperators,
     defaultFilterFields, defaultOrderFields}

VARIABLES
    defaultQueryParam,       \* string
    defaultSearchMandatory,  \* bool
    defaultLimit,            \* *int: None or Some(n)
    defaultErrorHandler,     \* the function the variable holds
    maps,                    \* heap: contents of every allocated map
    handlers,                \* config of every constructed handler
    setCalls,                \* number of SetDefault* calls made so far
    pending,                 \* an option slice the caller keeps and passes again
    reqs,                    \* the requests being served, by request id
    symbolCalls,             \* the calls of Symbol() made by the importing code
    setLimitArg,             \* the argument of the last SetDefaultLimit call
    mapCalls,                \* utility: the calls of Map and MapE in progress
    recoverReqs,             \* recover: the requests its handler is serving
    loggerReqs,              \* logger: the requests its handler is serving
    starts                   \* gracely: the call of Start in progress

\* the state of the packages utility, recover, logger and gracely
otherPackages == <<mapCalls, recoverReqs, loggerReqs, starts>>

\* no call of another package of the module is in progress
InitOtherPackages ==
    /\ mapCalls = <<>>
    /\ recoverReqs = <<>>
    /\ loggerReqs = <<>>
    /\ starts = <<>>

vars ==
    <<defaultQueryParam, defaultSearchMandatory, defaultLimit,
      defaultErrorHandler, maps, handlers, setCalls, pending, reqs, symbolCalls,
      setLimitArg, otherPackages>>

\* the scalar package variables, as a closure running in the process sees them
Globals ==
    [defaultQueryParam |-> defaultQueryParam,
     defaultSearchMandatory |-> defaultSearchMandatory,
     defaultLimit |-> defaultLimit,
     defaultErrorHandler |-> defaultErrorHandler]

(***************************************************************************)
(* clear(m) followed by the insertion loop, and the insertion loop alone.  *)
(***************************************************************************)
RECURSIVE InsertAll(_, _)
InsertAll(set, values) ==
    IF values = <<>> THEN set
    ELSE InsertAll(set \cup {Head(values)}, Tail(values))

ClearAndInsert(m, ref, values) ==
    [m EXCEPT ![ref] = InsertAll({}, values)]

InsertInto(m, ref, values) ==
    [m EXCEPT ![ref] = InsertAll(m[ref], values)]

(***************************************************************************)
(* Process-wide setters.                                                   *)
(***************************************************************************)
SetDefaultQueryParam(queryParam) ==
    /\ setCalls < MaxSetCalls
    /\ defaultQueryParam' = queryParam
    /\ setCalls' = setCalls + 1
    /\ UNCHANGED <<defaultSearchMandatory, defaultLimit, defaultErrorHandler,
                   maps, handlers, pending, reqs, symbolCalls,
                   setLimitArg, otherPackages>>

SetDefaultSearchMandatory(isMandatory) ==
    /\ setCalls < MaxSetCalls
    /\ defaultSearchMandatory' = isMandatory
    /\ setCalls' = setCalls + 1
    /\ UNCHANGED <<defaultQueryParam, defaultLimit, defaultErrorHandler,
                   maps, handlers, pending, reqs, symbolCalls,
                   setLimitArg, otherPackages>>

SetDefaultLogicalOperators(operators) ==
    /\ setCalls < MaxSetCalls
    /\ maps' = ClearAndInsert(maps, defaultLogicalOperators, operators)
    /\ setCalls' = setCalls + 1
    /\ UNCHANGED <<defaultQueryParam, defaultSearchMandatory, defaultLimit,
                   defaultErrorHandler, handlers, pending, reqs, symbolCalls,
                   setLimitArg, otherPackages>>

SetDefaultRelationalOperators(operators) ==
    /\ setCalls < MaxSetCalls
    /\ maps' = ClearAndInsert(maps, defaultRelationalOperators, operators)
    /\ setCalls' = setCalls + 1
    /\ UNCHANGED <<defaultQueryParam, defaultSearchMandatory, defaultLimit,
                   defaultErrorHandler, handlers, pending, reqs, symbolCalls,
                   setLimitArg, otherPackages>>

\* a SetDefaultLimit that takes a negative argument for a ceiling of 0
SetDefaultLimitClamps(limit) ==
    /\ setCalls < MaxSetCalls
    /\ defaultLimit' = IF limit < 0 THEN Some(0) ELSE Some(limit)
    /\ setCalls' = setCalls + 1
    /\ setLimitArg' = Some(limit)
    /\ UNCHANGED <<defaultQueryParam, defaultSearchMandatory,
                   defaultErrorHandler, maps, handlers, pending, reqs, symbolCalls,
                   otherPackages>>

SetDefaultLimit(limit) ==
    /\ setCalls < MaxSetCalls
    /\ defaultLimit' = IF limit < 0 THEN None ELSE Some(limit)
    /\ setCalls' = setCalls + 1
    /\ setLimitArg' = Some(limit)
    /\ UNCHANGED <<defaultQueryParam, defaultSearchMandatory,
                   defaultErrorHandler, maps, handlers, pending, reqs, symbolCalls,
                   otherPackages>>

SetDefaultErrorHandler(handler) ==
    /\ setCalls < MaxSetCalls
    /\ defaultErrorHandler' = handler
    /\ setCalls' = setCalls + 1
    /\ UNCHANGED <<defaultQueryParam, defaultSearchMandatory, defaultLimit,
                   maps, handlers, pending, reqs, symbolCalls,
                   setLimitArg, otherPackages>>

SetDefaultFilterFields(fields) ==
    /\ setCalls < MaxSetCalls
    /\ maps' = ClearAndInsert(maps, defaultFilterFields, fields)
    /\ setCalls' = setCalls + 1
    /\ UNCHANGED <<defaultQueryParam, defaultSearchMandatory, defaultLimit,
                   defaultErrorHandler, handlers, pending, reqs, symbolCalls,
                   setLimitArg, otherPackages>>

SetDefaultOrderFields(fields) ==
    /\ setCalls < MaxSetCalls
    /\ maps' = ClearAndInsert(maps, defaultOrderFields, fields)
    /\ setCalls' = setCalls + 1
    /\ UNCHANGED <<defaultQueryParam, defaultSearchMandatory, defaultLimit,
                   defaultErrorHandler, handlers, pending, reqs, symbolCalls,
                   setLimitArg, otherPackages>>

(***************************************************************************)
(* config and the functional options.  An option is a closure over its     *)
(* arguments; applied to a *config it updates the scalar fields of the     *)
(* struct and the contents of the maps its map fields refer to.  The pair  *)
(* st = [c |-> the config struct, m |-> the heap, g |-> Globals] is acted   *)
(* on; st.g holds the scalar package variables, which no option assigns.   *)
(***************************************************************************)
\* mutant: the closure assigns the package variable, as the setter does
WithQueryParamAssignsDefault(queryParam, st) ==
    [st EXCEPT !.g.defaultQueryParam = queryParam]

WithQueryParam(queryParam, st) ==
    [st EXCEPT !.c.queryParam = queryParam]

WithSearchMandatory(isMandatory, st) ==
    [st EXCEPT !.c.isSearchMandatory = isMandatory]

WithLogicalOperators(operators, st) ==
    [st EXCEPT !.m = ClearAndInsert(st.m, st.c.allowedLogicalOperators, operators)]

WithRelationalOperators(operators, st) ==
    [st EXCEPT !.m = ClearAndInsert(st.m, st.c.allowedRelationalOperators, operators)]

\* a WithLimit that leaves a max limit the config already has
WithLimitKeepsFirst(limit, st) ==
    IF IsSome(st.c.limit) THEN st
    ELSE [st EXCEPT !.c.limit = IF limit < 0 THEN None ELSE Some(limit)]

WithLimit(limit, st) ==
    [st EXCEPT !.c.limit = IF limit < 0 THEN None ELSE Some(limit)]

WithErrorHandler(handler, st) ==
    [st EXCEPT !.c.errorHandler = handler]

WithFilterFields(fields, st) ==
    [st EXCEPT !.m = ClearAndInsert(st.m, st.c.allowedFilterFields, fields)]

\* mutant: the extend option clears the set first, as the replace option does
WithExtraFilterFieldsClears(fields, st) ==
    [st EXCEPT !.m = ClearAndInsert(st.m, st.c.allowedFilterFields, fields)]

WithExtraFilterFields(fields, st) ==
    [st EXCEPT !.m = InsertInto(st.m, st.c.allowedFilterFields, fields)]

WithOrderFields(fields, st) ==
    [st EXCEPT !.m = ClearAndInsert(st.m, st.c.allowedOrderFields, fields)]

WithExtraOrderFields(fields, st) ==
    [st EXCEPT !.m = InsertInto(st.m, st.c.allowedOrderFields, fields)]

\* an Option value: which With* built it and the arguments it closed over
Opt(name, strs, n, b) == [name |-> name, strs |-> strs, n |-> n, b |-> b]

ApplyOption(opt, st) ==
    CASE opt.name = "WithQueryParam" -> WithQueryParam(opt.strs[1], st)
      [] opt.name = "WithSearchMandatory" -> WithSearchMandatory(opt.b, st)
      [] opt.name = "WithLogicalOperators" -> WithLogicalOperators(opt.strs, st)
      [] opt.name = "WithRelationalOperators" -> WithRelationalOperators(opt.strs, st)
      [] opt.name = "WithLimit" -> WithLimit(opt.n, st)
      [] opt.name = "WithErrorHandler" -> WithErrorHandler(opt.strs[1], st)
      [] opt.name = "WithFilterFields" -> WithFilterFields(opt.strs, st)
      [] opt.name = "WithExtraFilterFields" -> WithExtraFilterFields(opt.strs, st)
      [] opt.name = "WithOrderFields" -> WithOrderFields(opt.strs, st)
      [] opt.name = "WithExtraOrderFields" -> WithExtraOrderFields(opt.strs, st)

\* for _, opt := range opts { opt(c) }
RECURSIVE ApplyOpts(_, _)
ApplyOpts(opts, st) ==
    IF opts = <<>> THEN st
    ELSE ApplyOpts(Tail(opts), ApplyOption(Head(opts), st))

\* the config literal NewSearchHandler starts from: scalars are copied,
\* map fields receive the references held by the default variables
InitialConfig ==
    [queryParam |-> defaultQueryParam,
     isSearchMandatory |-> defaultSearchMandatory,
     allowedLogicalOperators |-> defaultLogicalOperators,
     allowedRelationalOperators |-> defaultRelationalOperators,
     limit |-> defaultLimit,
     errorHandler |-> defaultErrorHandler,
     allowedFilterFields |-> defaultFilterFields,
     allowedOrderFields |-> defaultOrderFields]

Resolve(opts) == ApplyOpts(opts, [c |-> InitialConfig, m |-> maps, g |-> Globals])

(***************************************************************************)
(* The effective policy of a handler: its scalars and the current contents *)
(* of the maps its fields refer to.                                        *)
(***************************************************************************)
Policy(c, m) ==
    [queryParam |-> c.queryParam,
     isSearchMandatory |-> c.isSearchMandatory,
     allowedLogicalOperators |-> m[c.allowedLogicalOperators],
     allowedRelationalOperators |-> m[c.allowedRelationalOperators],
     limit |-> c.limit,
     errorHandler |-> c.errorHandler,
     allowedFilterFields |-> m[c.allowedFilterFields],
     allowedOrderFields |-> m[c.allowedOrderFields]]

\* the policy a handler constructed now with no options would get
Defaults == Policy(InitialConfig, maps)

(***************************************************************************)
(* NewSearchHandler up to the return of the middleware (lines 541-555).    *)
(***************************************************************************)
NewSearchHandler(opts) ==
    /\ Len(handlers) < MaxHandlers
    /\ LET st == Resolve(opts)
       IN  /\ handlers' = Append(handlers, st.c)
           /\ maps' = st.m
           /\ defaultQueryParam' = st.g.defaultQueryParam
           /\ defaultSearchMandatory' = st.g.defaultSearchMandatory
           /\ defaultLimit' = st.g.defaultLimit
           /\ defaultErrorHandler' = st.g.defaultErrorHandler
    /\ UNCHANGED <<setCalls, pending, reqs, symbolCalls,
                  setLimitArg, otherPackages>>

(***************************************************************************)
(* Bounded arguments.                                                      *)
(***************************************************************************)
FieldArgs == SeqsUpTo(FieldNames, MaxArgs)
LogicalArgs == SeqsUpTo(LogicalTokens, MaxArgs)
RelationalArgs == SeqsUpTo(RelationalTokens, MaxArgs)

Options ==
    {Opt("WithQueryParam", <<p>>, 0, FALSE) : p \in QueryParamArgs}
    \cup {Opt("WithSearchMandatory", <<>>, 0, b) : b \in BOOLEAN}
    \cup {Opt("WithLogicalOperators", a, 0, FALSE) : a \in LogicalArgs}
    \cup {Opt("WithRelationalOperators", a, 0, FALSE) : a \in RelationalArgs}
    \cup {Opt("WithLimit", <<>>, n, FALSE) : n \in LimitArgs}
    \cup {Opt("WithErrorHandler", <<h>>, 0, FALSE) : h \in ErrorHandlerArgs}
    \cup {Opt("WithFilterFields", a, 0, FALSE) : a \in FieldArgs}
    \cup {Opt("WithExtraFilterFields", a, 0, FALSE) : a \in FieldArgs}
    \cup {Opt("WithOrderFields", a, 0, FALSE) : a \in FieldArgs}
    \cup {Opt("WithExtraOrderFields", a, 0, FALSE) : a \in FieldArgs}

OptionLists == SeqsUpTo(Options, MaxOpts)

(***************************************************************************)
(* The configuration phase of the program.                                 *)
(***************************************************************************)
\* the package-level variables as the program starts (lines 312-352)
InitPackage ==
    /\ defaultQueryParam = "q"
    /\ defaultSearchMandatory = TRUE
    /\ defaultLimit = None
    /\ defaultErrorHandler = "defaultErrorHandler"
    /\ maps = [r \in MapRefs |->
                 CASE r = defaultLogicalOperators -> logicalOperators
                   [] r = defaultRelationalOperators -> relationalOperators
                   [] r = defaultFilterFields -> {}
                   [] r = defaultOrderFields -> {}]
    /\ setCalls = 0

InitConfig ==
    /\ InitPackage
    /\ handlers = <<>>
    /\ pending = <<>>
    /\ reqs = <<>>
    /\ symbolCalls = <<>>
    /\ setLimitArg = None
    /\ InitOtherPackages

NextConfig ==
    \/ \E p \in QueryParamArgs : SetDefaultQueryParam(p)
    \/ \E b \in BOOLEAN : SetDefaultSearchMandatory(b)
    \/ \E a \in LogicalArgs : SetDefaultLogicalOperators(a)
    \/ \E a \in RelationalArgs : SetDefaultRelationalOperators(a)
    \/ \E n \in LimitArgs : SetDefaultLimit(n)
    \/ \E h \in ErrorHandlerArgs : SetDefaultErrorHandler(h)
    \/ \E a \in FieldArgs : SetDefaultFilterFields(a)
    \/ \E a \in FieldArgs : SetDefaultOrderFields(a)
    \/ \E opts \in OptionLists : NewSearchHandler(opts)

Spec == InitConfig /\ [][NextConfig]_vars

(***************************************************************************)
(* Expression model (lines 178-297).  A nil pointer is None, a non-nil     *)
(* pointer Some(v); slices are sequences.                                  *)
(***************************************************************************)
Filter(field, op, value) == [Field |-> field, Op |-> op, Value |-> value]

FilterGroup(op, filters, groups) ==
    [Op |-> op, Filters |-> filters, Groups |-> groups]

OrderClause(field, direction) == [Field |-> field, Direction |-> direction]

SearchRequest(groups, orderBy, limit, offset) ==
    [Groups |-> groups, OrderBy |-> orderBy, Limit |-> limit, Offset |-> offset]

\* the zero value `var search SearchRequest` starts from
ZeroSearchRequest == SearchRequest(None, <<>>, None, None)

(***************************************************************************)
(* Errors are their messages; nil is the absent error.                     *)
(***************************************************************************)
nil == "<nil>"

\* fmt's %q and %d on the strings and integers of the model
Quote(s) == "\"" \o s \o "\""
Itoa(n) == ToString(n)

ErrInvalidLimit == "limit must be null or >= 0"
ErrLimitMandatory == "limit is mandatory"
ErrLimitExceeded(max) == "limit must be between 0 and " \o Itoa(max)
ErrInvalidOffset == "offset must be null or >= 0"
ErrOrderField(field) == "field " \o Quote(field) \o " not allowed in order by"
ErrLogicalOperator(op) == "logical operator " \o Quote(op) \o " not allowed"
ErrFilterField(field) == "field " \o Quote(field) \o " not allowed in filters"
ErrRelationalOperator(op, field) ==
    "relational operator " \o Quote(op) \o " not allowed for field " \o Quote(field)
ErrMissingParameter(queryParam) ==
    "missing " \o Quote(queryParam) \o " query parameter"

(***************************************************************************)
(* validateSearchRequest (lines 591-651).  opts is the handler's *config,  *)
(* m the heap its map fields are looked up in.                             *)
(***************************************************************************)
\* lines 593-604: the checks on s.Limit
\* the comparison with the max limit made with >= instead of >
validateLimitBelowMax(s, opts) ==
    IF IsSome(s.Limit) /\ Get(s.Limit) < 0 THEN ErrInvalidLimit
    ELSE IF IsSome(opts.limit) /\ ~IsSome(s.Limit) THEN ErrLimitMandatory
    ELSE IF IsSome(opts.limit) /\ Get(s.Limit) >= Get(opts.limit)
         THEN ErrLimitExceeded(Get(opts.limit))
    ELSE nil

validateLimit(s, opts) ==
    IF IsSome(s.Limit) /\ Get(s.Limit) < 0 THEN ErrInvalidLimit
    ELSE IF IsSome(opts.limit) /\ ~IsSome(s.Limit) THEN ErrLimitMandatory
    ELSE IF IsSome(opts.limit) /\ Get(s.Limit) > Get(opts.limit)
         THEN ErrLimitExceeded(Get(opts.limit))
    ELSE nil

\* lines 607-609
validateOffset(s) ==
    IF IsSome(s.Offset) /\ Get(s.Offset) < 0 THEN ErrInvalidOffset ELSE nil

\* lines 611-615: the loop over s.OrderBy, returning at the first miss
RECURSIVE validateOrderBy(_, _, _)
\* the loop over s.OrderBy with a check of the direction added
validateOrderByChecksDirection(orderBy, opts, m) ==
    IF orderBy = <<>> THEN nil
    ELSE IF Head(orderBy).Field \notin m[opts.allowedOrderFields]
         THEN ErrOrderField(Head(orderBy).Field)
    ELSE IF Head(orderBy).Direction \notin {"asc", "desc"}
         THEN ErrOrderField(Head(orderBy).Direction)
    ELSE validateOrderBy(Tail(orderBy), opts, m)

validateOrderBy(orderBy, opts, m) ==
    IF orderBy = <<>> THEN nil
    ELSE IF Head(orderBy).Field \notin m[opts.allowedOrderFields]
         THEN ErrOrderField(Head(orderBy).Field)
    ELSE validateOrderBy(Tail(orderBy), opts, m)

\* lines 627-635: the loop over g.Filters
RECURSIVE validateFilters(_, _, _)
\* the loop over g.Filters looking the field up in the order fields
validateFiltersByOrderFields(filters, opts, m) ==
    IF filters = <<>> THEN nil
    ELSE LET f == Head(filters)
         IN  IF f.Field \notin m[opts.allowedOrderFields]
             THEN ErrFilterField(f.Field)
             ELSE IF f.Op \notin m[opts.allowedRelationalOperators]
             THEN ErrRelationalOperator(f.Op, f.Field)
             ELSE validateFilters(Tail(filters), opts, m)

validateFilters(filters, opts, m) ==
    IF filters = <<>> THEN nil
    ELSE LET f == Head(filters)
         IN  IF f.Field \notin m[opts.allowedFilterFields]
             THEN ErrFilterField(f.Field)
             ELSE IF f.Op \notin m[opts.allowedRelationalOperators]
             THEN ErrRelationalOperator(f.Op, f.Field)
             ELSE validateFilters(Tail(filters), opts, m)

\* lines 617-644: validateGroup, g a *FilterGroup; lines 637-641 are the loop
\* over g.Groups, which calls validateGroup on the address of each element
RECURSIVE validateGroup(_, _, _)
RECURSIVE validateGroups(_, _, _)
\* validateGroup that descends into the nested groups before it checks
\* the filters of the group
validateGroupNestedFirst(g, opts, m) ==
    IF ~IsSome(g) THEN nil
    ELSE IF Get(g).Op \notin m[opts.allowedLogicalOperators]
         THEN ErrLogicalOperator(Get(g).Op)
    ELSE IF validateGroups(Get(g).Groups, opts, m) # nil
         THEN validateGroups(Get(g).Groups, opts, m)
    ELSE validateFilters(Get(g).Filters, opts, m)

\* validateGroup that takes a missing root group for a group with no operator
validateGroupRequiresRoot(g, opts, m) ==
    IF ~IsSome(g) THEN ErrLogicalOperator("")
    ELSE IF Get(g).Op \notin m[opts.allowedLogicalOperators]
         THEN ErrLogicalOperator(Get(g).Op)
    ELSE IF validateFilters(Get(g).Filters, opts, m) # nil
         THEN validateFilters(Get(g).Filters, opts, m)
    ELSE validateGroups(Get(g).Groups, opts, m)

validateGroup(g, opts, m) ==
    IF ~IsSome(g) THEN nil
    ELSE IF Get(g).Op \notin m[opts.allowedLogicalOperators]
         THEN ErrLogicalOperator(Get(g).Op)
    ELSE IF validateFilters(Get(g).Filters, opts, m) # nil
         THEN validateFilters(Get(g).Filters, opts, m)
    ELSE validateGroups(Get(g).Groups, opts, m)

\* a loop over g.Groups that stops after its first element
validateGroupsFirstOnly(groups, opts, m) ==
    IF groups = <<>> THEN nil ELSE validateGroup(Some(Head(groups)), opts, m)

validateGroups(groups, opts, m) ==
    IF groups = <<>> THEN nil
    ELSE IF validateGroup(Some(Head(groups)), opts, m) # nil
         THEN validateGroup(Some(Head(groups)), opts, m)
    ELSE validateGroups(Tail(groups), opts, m)

\* the offset check moved in front of the limit checks
validateSearchRequestOffsetFirst(s, opts, m) ==
    IF validateOffset(s) # nil THEN validateOffset(s)
    ELSE IF validateLimit(s, opts) # nil THEN validateLimit(s, opts)
    ELSE IF validateOrderBy(s.OrderBy, opts, m) # nil
         THEN validateOrderBy(s.OrderBy, opts, m)
    ELSE validateGroup(s.Groups, opts, m)

validateSearchRequest(s, opts, m) ==
    IF validateLimit(s, opts) # nil THEN validateLimit(s, opts)
    ELSE IF validateOffset(s) # nil THEN validateOffset(s)
    ELSE IF validateOrderBy(s.OrderBy, opts, m) # nil
         THEN validateOrderBy(s.OrderBy, opts, m)
    ELSE validateGroup(s.Groups, opts, m)

(***************************************************************************)
(* The wire format.  The text of a query parameter is the sequence of the  *)
(* JSON values written in it: <<>> is the empty string, <<v>> a text that  *)
(* holds one JSON value, <<v, w>> a value followed by more text.  A JSON   *)
(* value is a record: t its type, n an integer number, s a string, k and a *)
(* the member names and member values of an object, a the items of an      *)
(* array.  JInvalid is text that is not JSON.                              *)
(***************************************************************************)
JNull == [t |-> "null", n |-> 0, s |-> "", k |-> <<>>, a |-> <<>>]
JInvalid == [t |-> "invalid", n |-> 0, s |-> "", k |-> <<>>, a |-> <<>>]
JNum(n) == [t |-> "number", n |-> n, s |-> "", k |-> <<>>, a |-> <<>>]
JStr(s) == [t |-> "string", n |-> 0, s |-> s, k |-> <<>>, a |-> <<>>]
JArr(a) == [t |-> "array", n |-> 0, s |-> "", k |-> <<>>, a |-> a]
JObj(k, a) == [t |-> "object", n |-> 0, s |-> "", k |-> k, a |-> a]

ErrSyntax == "invalid character looking for beginning of value"
ErrUnknownField(key) == "json: unknown field " \o Quote(key)
ErrUnmarshalType(jsonType, field, goType) ==
    "json: cannot unmarshal " \o jsonType \o " into Go struct field "
        \o field \o " of type " \o goType

\* the decoder keeps the first error it saved and goes on decoding
FirstError(e1, e2) == IF e1 # nil THEN e1 ELSE e2

Result(err, v) == [err |-> err, v |-> v]

\* a member name matches a struct field by its json tag, exactly or under
\* case folding; over the member names of the model only these fold
CanonicalKey(key) ==
    CASE key = "LIMIT" -> "limit"
      [] key = "Field" -> "field"
      [] OTHER -> key

\* a string-typed field (string, LogicalOperator, RelationalOperator,
\* OrderDirection): null leaves the field as it is
decodeString(j, cur, field) ==
    IF j.t = "string" THEN Result(nil, j.s)
    ELSE IF j.t = "null" THEN Result(nil, cur)
    ELSE Result(ErrUnmarshalType(j.t, field, "string"), cur)

\* a *int field: null sets the pointer to nil
decodeIntPtr(j, cur, field) ==
    IF j.t = "number" THEN Result(nil, Some(j.n))
    ELSE IF j.t = "null" THEN Result(nil, None)
    ELSE Result(ErrUnmarshalType(j.t, field, "int"), cur)

\* the struct with one field replaced by a decoded value, and the error of
\* decoding it
SetField(struct, field, r) == Result(r.err, [struct EXCEPT ![field] = r.v])

SetPointer(struct, field, r) == Result(r.err, [struct EXCEPT ![field] = Some(r.v)])

\* first the members or items decoded so far, then the rest
Then(r, rest) == Result(FirstError(r.err, rest.err), rest.v)

Cons(r, rest) == Result(FirstError(r.err, rest.err), <<r.v>> \o rest.v)

\* Filter (lines 185-194)
decodeFilterMember(f, key, j) ==
    CASE CanonicalKey(key) = "field" ->
           SetField(f, "Field", decodeString(j, f.Field, "Filter.field"))
      [] CanonicalKey(key) = "op" ->
           SetField(f, "Op", decodeString(j, f.Op, "Filter.op"))
      [] CanonicalKey(key) = "value" ->
           SetField(f, "Value", decodeString(j, f.Value, "Filter.value"))
      [] OTHER -> Result(ErrUnknownField(key), f)

RECURSIVE decodeFilterObject(_, _, _)
decodeFilterRest(r, keys, vals) == Then(r, decodeFilterObject(keys, vals, r.v))

decodeFilterObject(keys, vals, f) ==
    IF keys = <<>> THEN Result(nil, f)
    ELSE decodeFilterRest(decodeFilterMember(f, Head(keys), Head(vals)),
                          Tail(keys), Tail(vals))

decodeFilter(j) ==
    IF j.t = "object" THEN decodeFilterObject(j.k, j.a, Filter("", "", ""))
    ELSE IF j.t = "null" THEN Result(nil, Filter("", "", ""))
    ELSE Result(ErrUnmarshalType(j.t, "FilterGroup.filters", "qparams.Filter"),
                Filter("", "", ""))

RECURSIVE decodeFilterItems(_)
decodeFilterItems(items) ==
    IF items = <<>> THEN Result(nil, <<>>)
    ELSE Cons(decodeFilter(Head(items)), decodeFilterItems(Tail(items)))

decodeFilters(j, cur) ==
    IF j.t = "array" THEN decodeFilterItems(j.a)
    ELSE IF j.t = "null" THEN Result(nil, <<>>)
    ELSE Result(ErrUnmarshalType(j.t, "FilterGroup.filters", "[]qparams.Filter"), cur)

\* OrderClause (lines 244-250)
decodeOrderClauseMember(o, key, j) ==
    CASE CanonicalKey(key) = "field" ->
           SetField(o, "Field", decodeString(j, o.Field, "OrderClause.field"))
      [] CanonicalKey(key) = "direction" ->
           SetField(o, "Direction",
                    decodeString(j, o.Direction, "OrderClause.direction"))
      [] OTHER -> Result(ErrUnknownField(key), o)

RECURSIVE decodeOrderClauseObject(_, _, _)
decodeOrderClauseRest(r, keys, vals) ==
    Then(r, decodeOrderClauseObject(keys, vals, r.v))

decodeOrderClauseObject(keys, vals, o) ==
    IF keys = <<>> THEN Result(nil, o)
    ELSE decodeOrderClauseRest(decodeOrderClauseMember(o, Head(keys), Head(vals)),
                               Tail(keys), Tail(vals))

decodeOrderClause(j) ==
    IF j.t = "object" THEN decodeOrderClauseObject(j.k, j.a, OrderClause("", ""))
    ELSE IF j.t = "null" THEN Result(nil, OrderClause("", ""))
    ELSE Result(ErrUnmarshalType(j.t, "SearchRequest.order_by", "qparams.OrderClause"),
                OrderClause("", ""))

RECURSIVE decodeOrderClauseItems(_)
decodeOrderClauseItems(items) ==
    IF items = <<>> THEN Result(nil, <<>>)
    ELSE Cons(decodeOrderClause(Head(items)), decodeOrderClauseItems(Tail(items)))

decodeOrderBy(j, cur) ==
    IF j.t = "array" THEN decodeOrderClauseItems(j.a)
    ELSE IF j.t = "null" THEN Result(nil, <<>>)
    ELSE Result(ErrUnmarshalType(j.t, "SearchRequest.order_by", "[]qparams.OrderClause"), cur)

\* FilterGroup (lines 203-213), recursive through its groups member
RECURSIVE decodeFilterGroupObject(_, _, _)
RECURSIVE decodeFilterGroupItems(_)
decodeFilterGroups(j, cur) ==
    IF j.t = "array" THEN decodeFilterGroupItems(j.a)
    ELSE IF j.t = "null" THEN Result(nil, <<>>)
    ELSE Result(ErrUnmarshalType(j.t, "FilterGroup.groups", "[]qparams.FilterGroup"), cur)

decodeFilterGroupMember(g, key, j) ==
    CASE CanonicalKey(key) = "op" ->
           SetField(g, "Op", decodeString(j, g.Op, "FilterGroup.op"))
      [] CanonicalKey(key) = "filters" ->
           SetField(g, "Filters", decodeFilters(j, g.Filters))
      [] CanonicalKey(key) = "groups" ->
           SetField(g, "Groups", decodeFilterGroups(j, g.Groups))
      [] OTHER -> Result(ErrUnknownField(key), g)

decodeFilterGroupRest(r, keys, vals) ==
    Then(r, decodeFilterGroupObject(keys, vals, r.v))

decodeFilterGroupObject(keys, vals, g) ==
    IF keys = <<>> THEN Result(nil, g)
    ELSE decodeFilterGroupRest(decodeFilterGroupMember(g, Head(keys), Head(vals)),
                               Tail(keys), Tail(vals))

decodeFilterGroup(j) ==
    IF j.t = "object" THEN decodeFilterGroupObject(j.k, j.a, FilterGroup("", <<>>, <<>>))
    ELSE IF j.t = "null" THEN Result(nil, FilterGroup("", <<>>, <<>>))
    ELSE Result(ErrUnmarshalType(j.t, "FilterGroup.groups", "qparams.FilterGroup"),
                FilterGroup("", <<>>, <<>>))

decodeFilterGroupItems(items) ==
    IF items = <<>> THEN Result(nil, <<>>)
    ELSE Cons(decodeFilterGroup(Head(items)), decodeFilterGroupItems(Tail(items)))

\* SearchRequest (lines 282-297); Groups is a *FilterGroup
decodeGroupsPtr(s, j) ==
    IF j.t = "object" THEN SetPointer(s, "Groups", decodeFilterGroup(j))
    ELSE IF j.t = "null" THEN Result(nil, [s EXCEPT !.Groups = None])
    ELSE Result(ErrUnmarshalType(j.t, "SearchRequest.groups", "qparams.FilterGroup"), s)

decodeSearchRequestMember(s, key, j) ==
    CASE CanonicalKey(key) = "groups" -> decodeGroupsPtr(s, j)
      [] CanonicalKey(key) = "order_by" ->
           SetField(s, "OrderBy", decodeOrderBy(j, s.OrderBy))
      [] CanonicalKey(key) = "limit" ->
           SetField(s, "Limit", decodeIntPtr(j, s.Limit, "SearchRequest.limit"))
      [] CanonicalKey(key) = "offset" ->
           SetField(s, "Offset", decodeIntPtr(j, s.Offset, "SearchRequest.offset"))
      [] OTHER -> Result(ErrUnknownField(key), s)

RECURSIVE decodeSearchRequestObject(_, _, _)
decodeSearchRequestRest(r, keys, vals) ==
    Then(r, decodeSearchRequestObject(keys, vals, r.v))

decodeSearchRequestObject(keys, vals, s) ==
    IF keys = <<>> THEN Result(nil, s)
    ELSE decodeSearchRequestRest(decodeSearchRequestMember(s, Head(keys), Head(vals)),
                                 Tail(keys), Tail(vals))

\* lines 570-577: decoder.Decode(&search) on the non-empty text: the first
\* JSON value of the text is decoded, what follows it is not read
DecodeValue(j) ==
    IF j.t = "invalid" THEN Result(ErrSyntax, ZeroSearchRequest)
    ELSE IF j.t = "object"
         THEN decodeSearchRequestObject(j.k, j.a, ZeroSearchRequest)
    ELSE IF j.t = "null" THEN Result(nil, ZeroSearchRequest)
    ELSE Result(ErrUnmarshalType(j.t, "", "qparams.SearchRequest"),
                ZeroSearchRequest)

Decode(text) == DecodeValue(Head(text))

(***************************************************************************)
(* The middleware returned by NewSearchHandler (lines 557-588), one        *)
(* request at a time.  A request is a record: h the handler serving it,    *)
(* query its URL query, ctx the values of its context, pc the position of  *)
(* the handler function, s and search the function's local variables, and  *)
(* calls the calls made so far to the error callback and to the downstream *)
(* handler, with the error and the context of the request handed over.     *)
(***************************************************************************)
searchKey == "search"

\* url.Values.Get: the value of the parameter, "" when it is not there
QueryGet(query, name) == IF name \in DOMAIN query THEN query[name] ELSE <<>>

\* context.WithValue(ctx, searchKey, &search)
WithValue(ctx, search) ==
    [key \in DOMAIN ctx \cup {searchKey} |->
        IF key = searchKey THEN [type |-> "*SearchRequest", v |-> search]
        ELSE ctx[key]]

\* lines 653-668
GetSearchRequest(ctx) ==
    IF searchKey \notin DOMAIN ctx THEN None
    ELSE IF ctx[searchKey].type # "*SearchRequest" THEN None
    ELSE Some(ctx[searchKey].v)

ErrorCall(c, err, ctx) ==
    [fn |-> "errorHandler", by |-> c.errorHandler, err |-> err, ctx |-> ctx]

NextCall(ctx) == [fn |-> "next", by |-> "next", err |-> nil, ctx |-> ctx]

configVars ==
    <<defaultQueryParam, defaultSearchMandatory, defaultLimit,
      defaultErrorHandler, maps, handlers, setCalls, pending, symbolCalls,
      setLimitArg, otherPackages>>

\* the error callback given a request whose context holds the search
FailWithSearch(req, c, err) ==
    [req EXCEPT !.pc = "done", !.err = err,
                !.calls = Append(@, ErrorCall(c, err, WithValue(req.ctx, req.search)))]

\* c.errorHandler(w, r, err); return
Fail(req, c, err) ==
    [req EXCEPT !.pc = "done", !.err = err,
                !.calls = Append(@, ErrorCall(c, err, req.ctx))]

\* lines 559-568: read the parameter; when it is empty either continue
\* downstream with the request as it came or report the missing parameter
\* lines 559-568 with the test of c.isSearchMandatory inverted
GetParamInvertedMandatory(req, c, s) ==
    IF s = <<>>
    THEN IF c.isSearchMandatory
         THEN [req EXCEPT !.pc = "done", !.calls = Append(@, NextCall(req.ctx))]
         ELSE Fail(req, c, ErrMissingParameter(c.queryParam))
    ELSE [req EXCEPT !.pc = "decode", !.s = s]

\* lines 559-568 with an empty search attached when the parameter is skipped
GetParamAttachesEmpty(req, c, s) ==
    IF s = <<>>
    THEN IF ~c.isSearchMandatory
         THEN [req EXCEPT !.pc = "done",
                          !.calls = Append(@, NextCall(WithValue(req.ctx, req.search)))]
         ELSE Fail(req, c, ErrMissingParameter(c.queryParam))
    ELSE [req EXCEPT !.pc = "decode", !.s = s]

GetParam(req, c, s) ==
    IF s = <<>>
    THEN IF ~c.isSearchMandatory
         THEN [req EXCEPT !.pc = "done", !.calls = Append(@, NextCall(req.ctx))]
         ELSE Fail(req, c, ErrMissingParameter(c.queryParam))
    ELSE [req EXCEPT !.pc = "decode", !.s = s]

ServeGetParam(r) ==
    /\ reqs[r].pc = "start"
    /\ reqs' = [reqs EXCEPT ![r] =
                  GetParam(@, handlers[@.h],
                           QueryGet(@.query, handlers[@.h].queryParam))]
    /\ UNCHANGED configVars

\* lines 570-577
Decoded(req, c, d) ==
    IF d.err # nil THEN Fail(req, c, d.err)
    ELSE [req EXCEPT !.pc = "validate", !.search = d.v]

\* lines 570-577 with search declared outside the handler function, one
\* variable for all the requests of the handler
ServeDecodeSharedSearch(r) ==
    /\ reqs[r].pc = "decode"
    /\ reqs' = [i \in DOMAIN reqs |->
                  IF i = r THEN Decoded(reqs[i], handlers[reqs[i].h], Decode(reqs[i].s))
                  ELSE [reqs[i] EXCEPT !.search = Decode(reqs[r].s).v]]
    /\ UNCHANGED configVars

ServeDecode(r) ==
    /\ reqs[r].pc = "decode"
    /\ reqs' = [reqs EXCEPT ![r] = Decoded(@, handlers[@.h], Decode(@.s))]
    /\ UNCHANGED configVars

\* lines 579-582
\* lines 579-582 without the return after the error callback
ValidatedNoReturn(req, c, err) ==
    IF err # nil THEN [Fail(req, c, err) EXCEPT !.pc = "attach"]
    ELSE [req EXCEPT !.pc = "attach"]

Validated(req, c, err) ==
    IF err # nil THEN Fail(req, c, err) ELSE [req EXCEPT !.pc = "attach"]

ServeValidate(r) ==
    /\ reqs[r].pc = "validate"
    /\ reqs' = [reqs EXCEPT ![r] =
                  Validated(@, handlers[@.h],
                            validateSearchRequest(@.search, handlers[@.h], maps))]
    /\ UNCHANGED configVars

\* lines 584-586: the downstream handler gets a copy of the request whose
\* context holds the search; the request itself keeps its context
\* lines 584-586 with the downstream handler given r, not r.WithContext(ctx)
ServeNextWithoutContext(r) ==
    /\ reqs[r].pc = "attach"
    /\ reqs' = [reqs EXCEPT ![r].pc = "done",
                            ![r].calls = Append(@, NextCall(reqs[r].ctx))]
    /\ UNCHANGED configVars

ServeNext(r) ==
    /\ reqs[r].pc = "attach"
    /\ reqs' = [reqs EXCEPT ![r].pc = "done",
                            ![r].calls =
                                Append(@, NextCall(WithValue(reqs[r].ctx, reqs[r].search)))]
    /\ UNCHANGED configVars

\* a request as it arrives at handler h
NewRequest(h, query) ==
    [h |-> h, query |-> query, ctx |-> <<>>, pc |-> "start", s |-> <<>>,
     search |-> ZeroSearchRequest, err |-> nil, calls |-> <<>>]

(***************************************************************************)
(* Bounded inputs: search requests, payload texts, policies.               *)
(***************************************************************************)
Filters == {Filter(f, op, "x") : f \in FieldNames, op \in RelationalTokens}
OrderClauses == {OrderClause(f, "asc") : f \in FieldNames}

\* the filter groups of exactly n nodes, and the sequences of groups of n
\* nodes in all
RECURSIVE GroupsOfSize(_)
RECURSIVE ForestsOfSize(_)
GroupsOfSize(n) ==
    UNION {{FilterGroup(op, fs, gs) :
                op \in LogicalTokens,
                fs \in {q \in SeqsUpTo(Filters, nf) : Len(q) = nf},
                gs \in ForestsOfSize(n - 1 - nf)} : nf \in 0..(n - 1)}

ForestsOfSize(n) ==
    IF n = 0 THEN {<<>>}
    ELSE UNION {{<<g>> \o rest : g \in GroupsOfSize(first),
                                 rest \in ForestsOfSize(n - first)} : first \in 1..n}

GroupsUpTo(n) == UNION {GroupsOfSize(k) : k \in 1..n}

Optional(S) == {None} \cup {Some(v) : v \in S}

SearchRequestsOf(nodes, order, limits, offsets) ==
    {SearchRequest(g, o, l, off) :
        g \in Optional(GroupsUpTo(nodes)),
        o \in SeqsUpTo(OrderClauses, order),
        l \in Optional(limits),
        off \in Optional(offsets)}

SearchRequests ==
    SearchRequestsOf(MaxNodes, MaxOrder, (0 - 1)..(MaxLimit + 1), (0 - 1)..0)

\* the JSON text json.Marshal writes for a search request
EncodeFilter(f) ==
    JObj(<<"field", "op", "value">>, <<JStr(f.Field), JStr(f.Op), JStr(f.Value)>>)

EncodeOrderClause(o) ==
    JObj(<<"field", "direction">>, <<JStr(o.Field), JStr(o.Direction)>>)

RECURSIVE EncodeFilterGroup(_)
EncodeFilterGroup(g) ==
    JObj(<<"op">>
            \o (IF g.Filters = <<>> THEN <<>> ELSE <<"filters">>)
            \o (IF g.Groups = <<>> THEN <<>> ELSE <<"groups">>),
         <<JStr(g.Op)>>
            \o (IF g.Filters = <<>> THEN <<>>
                ELSE <<JArr([i \in DOMAIN g.Filters |-> EncodeFilter(g.Filters[i])])>>)
            \o (IF g.Groups = <<>> THEN <<>>
                ELSE <<JArr([i \in DOMAIN g.Groups |-> EncodeFilterGroup(g.Groups[i])])>>))

Encode(s) ==
    JObj((IF IsSome(s.Groups) THEN <<"groups">> ELSE <<>>)
            \o (IF s.OrderBy = <<>> THEN <<>> ELSE <<"order_by">>)
            \o (IF IsSome(s.Limit) THEN <<"limit">> ELSE <<>>)
            \o (IF IsSome(s.Offset) THEN <<"offset">> ELSE <<>>),
         (IF IsSome(s.Groups) THEN <<EncodeFilterGroup(Get(s.Groups))>> ELSE <<>>)
            \o (IF s.OrderBy = <<>> THEN <<>>
                ELSE <<JArr([i \in DOMAIN s.OrderBy |-> EncodeOrderClause(s.OrderBy[i])])>>)
            \o (IF IsSome(s.Limit) THEN <<JNum(Get(s.Limit))>> ELSE <<>>)
            \o (IF IsSome(s.Offset) THEN <<JNum(Get(s.Offset))>> ELSE <<>>))

\* the allow-sets of the policies requests are checked against: the sets
\* the program starts with and sets a setter or an option leaves
PolicyMaps ==
    {[r \in MapRefs |->
        CASE r = defaultLogicalOperators -> lo
          [] r = defaultRelationalOperators -> ro
          [] r = defaultFilterFields -> ff
          [] r = defaultOrderFields -> of] :
        lo \in {logicalOperators, {}},
        ro \in {relationalOperators, {}},
        ff \in {{}, {"id"}},
        of \in {{}, {"id"}}}

PolicyLimits == Optional(0..MaxLimit)

PolicyConfig(queryParam, isMandatory, limit) ==
    [queryParam |-> queryParam,
     isSearchMandatory |-> isMandatory,
     allowedLogicalOperators |-> defaultLogicalOperators,
     allowedRelationalOperators |-> defaultRelationalOperators,
     limit |-> limit,
     errorHandler |-> "defaultErrorHandler",
     allowedFilterFields |-> defaultFilterFields,
     allowedOrderFields |-> defaultOrderFields]

\* the scalar package variables of a program that made no SetDefault* call
\* for them
InitScalars ==
    /\ defaultQueryParam = "q"
    /\ defaultSearchMandatory = TRUE
    /\ defaultLimit = None
    /\ defaultErrorHandler = "defaultErrorHandler"
    /\ setCalls = 0
    /\ pending = <<>>
    /\ symbolCalls = <<>>
    /\ setLimitArg = None
    /\ InitOtherPackages

(***************************************************************************)
(* validateSearchRequest applied to bounded inputs: a handler with one of  *)
(* the policies has decoded one of the search requests.  The request       *)
(* record holds what lines 579-582 read and write; the query and the text  *)
(* the search was decoded from are not kept.                               *)
(***************************************************************************)
InitValidate ==
    /\ InitScalars
    /\ maps \in PolicyMaps
    /\ \E limit \in PolicyLimits : handlers = <<PolicyConfig("q", TRUE, limit)>>
    /\ \E s \in SearchRequests :
          reqs = <<[h |-> 1, ctx |-> <<>>, pc |-> "validate", search |-> s,
                    err |-> nil, calls |-> <<>>]>>

NextValidate ==
    \/ \E r \in DOMAIN reqs : ServeValidate(r)
    \/ \E r \in DOMAIN reqs : ServeNext(r)

SpecValidate == InitValidate /\ [][NextValidate]_vars

(***************************************************************************)
(* The middleware on bounded requests: a handler with one of the policies  *)
(* serves a request whose query holds at most one parameter.               *)
(***************************************************************************)
WireSearchRequests ==
    SearchRequestsOf(MaxWireNodes, 1, MaxLimit..(MaxLimit + 1), {0})

\* payloads json.Marshal never writes
OddDocuments ==
    {JNull, JNum(1), JInvalid,
     JObj(<<"bogus">>, <<JNum(1)>>),
     JObj(<<"limit">>, <<JStr("1")>>),
     JObj(<<"LIMIT">>, <<JNum(1)>>),
     JObj(<<"limit">>, <<JNull>>),
     JObj(<<"groups">>, <<JObj(<<"op", "bogus">>, <<JStr("and"), JNum(1)>>)>>),
     JObj(<<"groups">>,
          <<JObj(<<"op", "groups">>,
                 <<JStr("and"),
                   JArr(<<JObj(<<"op", "bogus">>, <<JStr("and"), JNum(1)>>)>>)>>)>>),
     JObj(<<"groups">>,
          <<JObj(<<"op", "filters">>,
                 <<JStr("and"),
                   JArr(<<JObj(<<"field", "op", "value", "bogus">>,
                               <<JStr("id"), JStr("eq"), JStr("x"), JStr("y")>>)>>)>>)>>),
     JObj(<<"order_by">>,
          <<JArr(<<JObj(<<"field", "direction", "bogus">>,
                        <<JStr("id"), JStr("asc"), JNum(1)>>)>>)>>)}

Texts ==
    {<<>>}
    \cup {<<Encode(s)>> : s \in WireSearchRequests}
    \cup {<<j>> : j \in OddDocuments}
    \cup {<<Encode(ZeroSearchRequest), JInvalid>>}

Queries ==
    {<<>>} \cup {[p \in {name} |-> text] : name \in QueryParams, text \in Texts}

InitServe ==
    /\ InitScalars
    /\ maps \in PolicyMaps
    /\ \E p \in QueryParams, b \in BOOLEAN, limit \in {None, Some(MaxLimit)} :
          handlers = <<PolicyConfig(p, b, limit)>>
    /\ \E query \in Queries : reqs = <<NewRequest(1, query)>>

NextServe ==
    \/ \E r \in DOMAIN reqs : ServeGetParam(r)
    \/ \E r \in DOMAIN reqs : ServeDecode(r)
    \/ \E r \in DOMAIN reqs : ServeValidate(r)
    \/ \E r \in DOMAIN reqs : ServeNext(r)

SpecServe == InitServe /\ [][NextServe]_vars

(***************************************************************************)
(* The resolver on a bounded option list: the caller makes its SetDefault* *)
(* calls, builds one option slice and constructs handlers from it.         *)
(***************************************************************************)
InitResolve ==
    /\ InitPackage
    /\ handlers = <<>>
    /\ pending \in OptionLists
    /\ reqs = <<>>
    /\ symbolCalls = <<>>
    /\ setLimitArg = None
    /\ InitOtherPackages

NextResolve ==
    \/ handlers = <<>> /\ \E p \in QueryParamArgs : SetDefaultQueryParam(p)
    \/ handlers = <<>> /\ \E b \in BOOLEAN : SetDefaultSearchMandatory(b)
    \/ handlers = <<>> /\ \E a \in LogicalArgs : SetDefaultLogicalOperators(a)
    \/ handlers = <<>> /\ \E a \in RelationalArgs : SetDefaultRelationalOperators(a)
    \/ handlers = <<>> /\ \E n \in LimitArgs : SetDefaultLimit(n)
    \/ handlers = <<>> /\ \E h \in ErrorHandlerArgs : SetDefaultErrorHandler(h)
    \/ handlers = <<>> /\ \E a \in FieldArgs : SetDefaultFilterFields(a)
    \/ handlers = <<>> /\ \E a \in FieldArgs : SetDefaultOrderFields(a)
    \/ NewSearchHandler(pending)

SpecResolve == InitResolve /\ [][NextResolve]_vars

(***************************************************************************)
(* Properties of the configuration resolver.                               *)
(***************************************************************************)
AllowSets ==
    {"allowedLogicalOperators", "allowedRelationalOperators",
     "allowedFilterFields", "allowedOrderFields"}

\* a handler was constructed in this step
Constructs == Len(handlers') = Len(handlers) + 1

\* C4: the effective policy of a constructed handler never changes: in
\* every step, whatever SetDefault* call or further construction it is,
\* each handler that exists keeps its parameter name, mandatory flag, max
\* limit, error callback and four allow-sets.
C4_PolicyIsImmutable ==
    [][\A i \in DOMAIN handlers :
          Policy(handlers'[i], maps') = Policy(handlers[i], maps)]_vars

\* C5: constructing a handler, with any option list, leaves every
\* process-wide default as it was: a handler constructed with no options
\* after the step gets the policy it would have got before the step.
C5_ConstructionKeepsDefaults ==
    [][Constructs => Defaults' = Defaults]_vars

\* the option that replaces, and the option that extends, an allow-set
ReplaceOption(set) ==
    CASE set = "allowedLogicalOperators" -> "WithLogicalOperators"
      [] set = "allowedRelationalOperators" -> "WithRelationalOperators"
      [] set = "allowedFilterFields" -> "WithFilterFields"
      [] set = "allowedOrderFields" -> "WithOrderFields"

ExtendOption(set) ==
    CASE set = "allowedFilterFields" -> "WithExtraFilterFields"
      [] set = "allowedOrderFields" -> "WithExtraOrderFields"
      [] OTHER -> "no such option"

\* the position of the last replace option for the set in opts, 0 if none
LastReplace(opts, set) ==
    LET at == {k \in DOMAIN opts : opts[k].name = ReplaceOption(set)}
    IN  IF at = {} THEN 0 ELSE CHOOSE k \in at : \A j \in at : j <= k

\* what the two semantics say the allow-set is after the whole list: the
\* values of the last replace option, or the inherited set when there is
\* none, together with the values of every extend option after it
ExpectedSet(opts, set, inherited) ==
    (IF LastReplace(opts, set) = 0 THEN inherited
     ELSE Range(opts[LastReplace(opts, set)].strs))
    \cup UNION {Range(opts[j].strs) :
                  j \in {j \in DOMAIN opts :
                           /\ j > LastReplace(opts, set)
                           /\ opts[j].name = ExtendOption(set)}}

\* C6: replace and extend semantics, in the order supplied: a handler just
\* constructed from the option list has, for each of its four allow-sets,
\* exactly the values of the last replace option (nothing inherited), or
\* the set inherited from the defaults when no replace option was given,
\* united with the values of the extend options that follow.
C6_ReplaceAndExtend ==
    [][Constructs =>
          \A set \in AllowSets :
              maps'[handlers'[Len(handlers')][set]]
                  = ExpectedSet(pending, set, maps[InitialConfig[set]])]_vars

\* C6 witness: a handler built from a replace option followed by an extend
\* option with other values holds the union of the two.
C6_Witness ==
    /\ Len(handlers) = 1
    /\ Len(pending) = 2
    /\ pending[1].name = "WithFilterFields" /\ pending[1].strs = <<"id">>
    /\ pending[2].name = "WithExtraFilterFields" /\ pending[2].strs = <<"email">>
    /\ maps[handlers[1].allowedFilterFields] = {"id", "email"}

\* C7: resolver determinism: the second of two handlers constructed one
\* after the other from the same option list, with the same SetDefault*
\* calls made before both, gets the policy the first one got, the two
\* policies are equal afterwards, and the two handlers validate every
\* search request alike.
C7_ResolverDeterminism ==
    [][(Len(handlers) = 1 /\ Len(handlers') = 2) =>
          /\ Policy(handlers'[2], maps') = Policy(handlers[1], maps)
          /\ Policy(handlers'[2], maps') = Policy(handlers'[1], maps')
          /\ \A s \in WireSearchRequests :
                validateSearchRequest(s, handlers'[2], maps')
                    = validateSearchRequest(s, handlers'[1], maps')]_vars

\* C7 witness: two handlers built from the same non-empty list after a
\* SetDefault* call.
C7_Witness ==
    /\ Len(handlers) = 2
    /\ setCalls = 1
    /\ defaultLimit = Some(1)
    /\ Len(pending) = 2
    /\ pending[1].name = "WithQueryParam"
    /\ pending[2].name = "WithExtraOrderFields" /\ pending[2].strs = <<"id">>
    /\ handlers[1].queryParam = "s" /\ handlers[2].queryParam = "s"
    /\ handlers[1].limit = Some(1)

(***************************************************************************)
(* Properties of the validator.  The request under validation is reqs[1],  *)
(* its handler handlers[1].                                                *)
(***************************************************************************)
\* every filter group of a tree: the group itself and the groups below it
RECURSIVE GroupsIn(_)
GroupsIn(g) ==
    {g} \cup UNION {GroupsIn(g.Groups[i]) : i \in DOMAIN g.Groups}

AllGroups(s) == IF IsSome(s.Groups) THEN GroupsIn(Get(s.Groups)) ELSE {}

AllFilters(s) == UNION {Range(g.Filters) : g \in AllGroups(s)}

\* the invariants of an accepted value, stated on the policy p
LimitOK(s, p) ==
    /\ IsSome(s.Limit) => Get(s.Limit) >= 0
    /\ IsSome(p.limit) => IsSome(s.Limit) /\ Get(s.Limit) <= Get(p.limit)

OffsetOK(s) == IsSome(s.Offset) => Get(s.Offset) >= 0

OrderOK(s, p) == \A i \in DOMAIN s.OrderBy : s.OrderBy[i].Field \in p.allowedOrderFields

Satisfies(s, p) ==
    /\ LimitOK(s, p)
    /\ OffsetOK(s)
    /\ OrderOK(s, p)
    /\ \A g \in AllGroups(s) : g.Op \in p.allowedLogicalOperators
    /\ \A f \in AllFilters(s) :
          /\ f.Field \in p.allowedFilterFields
          /\ f.Op \in p.allowedRelationalOperators

ThePolicy == Policy(handlers[1], maps)

\* the search request the downstream handler finds in the request it got
Attached(call) == GetSearchRequest(call.ctx)

\* C1: validateSearchRequest accepts a search request under a policy if and
\* only if the request satisfies every invariant of the policy (limit,
\* offset, order fields, the operator of every group at any depth, the field
\* and operator of every filter); so the middleware goes on to attach
\* exactly the requests that satisfy them, and every search request handed
\* downstream satisfies them.
C1_AcceptsIffInvariants ==
    /\ (validateSearchRequest(reqs[1].search, handlers[1], maps) = nil)
          <=> Satisfies(reqs[1].search, ThePolicy)
    /\ reqs[1].pc = "attach" => Satisfies(reqs[1].search, ThePolicy)
    /\ reqs[1].pc = "done" =>
          \A i \in DOMAIN reqs[1].calls :
              IF reqs[1].calls[i].fn = "next"
              THEN /\ IsSome(Attached(reqs[1].calls[i]))
                   /\ Satisfies(Get(Attached(reqs[1].calls[i])), ThePolicy)
              ELSE ~Satisfies(reqs[1].search, ThePolicy)

\* C1 witness: a request with a limit, an offset, an order clause and a
\* root group holding a filter and a nested group was handed downstream
\* under a policy with a max limit.
C1_Witness ==
    /\ reqs[1].pc = "done"
    /\ reqs[1].calls # <<>> /\ reqs[1].calls[1].fn = "next"
    /\ IsSome(handlers[1].limit)
    /\ IsSome(reqs[1].search.Limit) /\ IsSome(reqs[1].search.Offset)
    /\ reqs[1].search.OrderBy # <<>>
    /\ IsSome(reqs[1].search.Groups)
    /\ Get(reqs[1].search.Groups).Filters # <<>>
    /\ Get(reqs[1].search.Groups).Groups # <<>>

\* C1 witness of the other direction: a request whose only violation is the
\* operator of the second of two nested groups was rejected.
C1_WitnessRejected ==
    /\ reqs[1].pc = "done"
    /\ reqs[1].calls # <<>> /\ reqs[1].calls[1].fn = "errorHandler"
    /\ IsSome(reqs[1].search.Groups)
    /\ Len(Get(reqs[1].search.Groups).Groups) = 2
    /\ Get(reqs[1].search.Groups).Op \in ThePolicy.allowedLogicalOperators
    /\ Get(reqs[1].search.Groups).Groups[1].Op \in ThePolicy.allowedLogicalOperators
    /\ Get(reqs[1].search.Groups).Groups[2].Op \notin ThePolicy.allowedLogicalOperators
    /\ LimitOK(reqs[1].search, ThePolicy)
    /\ OffsetOK(reqs[1].search)
    /\ OrderOK(reqs[1].search, ThePolicy)

\* the checks of a filter, a filter sequence, a group and a group sequence,
\* one entry per check in depth-first declaration order: the error the
\* check reports, or nil when it passes
FilterChecks(f, p) ==
    << IF f.Field \in p.allowedFilterFields THEN nil ELSE ErrFilterField(f.Field),
       IF f.Op \in p.allowedRelationalOperators THEN nil
       ELSE ErrRelationalOperator(f.Op, f.Field) >>

RECURSIVE FiltersChecks(_, _)
FiltersChecks(filters, p) ==
    IF filters = <<>> THEN <<>>
    ELSE FilterChecks(Head(filters), p) \o FiltersChecks(Tail(filters), p)

RECURSIVE GroupChecks(_, _)
RECURSIVE ForestChecks(_, _)
GroupChecks(g, p) ==
    << IF g.Op \in p.allowedLogicalOperators THEN nil ELSE ErrLogicalOperator(g.Op) >>
        \o FiltersChecks(g.Filters, p)
        \o ForestChecks(g.Groups, p)

ForestChecks(groups, p) ==
    IF groups = <<>> THEN <<>>
    ELSE GroupChecks(Head(groups), p) \o ForestChecks(Tail(groups), p)

TreeChecks(s, p) ==
    IF IsSome(s.Groups) THEN GroupChecks(Get(s.Groups), p) ELSE <<>>

\* the checks before the tree, in the fixed order
ScalarChecks(s, p) ==
    << IF IsSome(s.Limit) /\ Get(s.Limit) < 0 THEN ErrInvalidLimit ELSE nil,
       IF IsSome(p.limit) /\ ~IsSome(s.Limit) THEN ErrLimitMandatory ELSE nil,
       IF IsSome(p.limit) /\ IsSome(s.Limit) /\ Get(s.Limit) > Get(p.limit)
       THEN ErrLimitExceeded(Get(p.limit)) ELSE nil,
       IF IsSome(s.Offset) /\ Get(s.Offset) < 0 THEN ErrInvalidOffset ELSE nil >>

OrderChecks(s, p) ==
    [i \in DOMAIN s.OrderBy |->
        IF s.OrderBy[i].Field \in p.allowedOrderFields THEN nil
        ELSE ErrOrderField(s.OrderBy[i].Field)]

CheckList(s, p) == ScalarChecks(s, p) \o OrderChecks(s, p) \o TreeChecks(s, p)

Failing(checks) == {i \in DOMAIN checks : checks[i] # nil}

\* the error of the earliest failing check, nil when every check passes
FirstViolation(checks) ==
    IF Failing(checks) = {} THEN nil
    ELSE checks[CHOOSE i \in Failing(checks) : \A j \in Failing(checks) : i <= j]

\* C2: validateSearchRequest returns the error of the earliest failing
\* check in the fixed order (negative limit, limit missing under a max
\* limit, limit above the max, negative offset, order fields in clause
\* order, the filter tree depth-first), however many checks fail, and the
\* error callback is called once, with exactly that error.
C2_FirstViolationReported ==
    /\ validateSearchRequest(reqs[1].search, handlers[1], maps)
          = FirstViolation(CheckList(reqs[1].search, ThePolicy))
    /\ (reqs[1].pc = "done" /\ Failing(CheckList(reqs[1].search, ThePolicy)) # {}) =>
          reqs[1].calls =
              <<ErrorCall(handlers[1],
                          FirstViolation(CheckList(reqs[1].search, ThePolicy)),
                          reqs[1].ctx)>>

\* C2 witness: a request that violates a rule of each of the five kinds
\* was rejected and the callback got the negative-limit error.
C2_Witness ==
    /\ reqs[1].pc = "done"
    /\ Len(reqs[1].calls) = 1
    /\ reqs[1].calls[1].fn = "errorHandler"
    /\ reqs[1].calls[1].err = ErrInvalidLimit
    /\ IsSome(handlers[1].limit)
    /\ ~OffsetOK(reqs[1].search)
    /\ ~OrderOK(reqs[1].search, ThePolicy)
    /\ Failing(TreeChecks(reqs[1].search, ThePolicy)) # {}

\* C2 witness for the later checks: limit and offset pass, an order field
\* and the tree both fail, and the callback got the order-field error.
C2_WitnessOrderBeforeTree ==
    /\ reqs[1].pc = "done"
    /\ Len(reqs[1].calls) = 1
    /\ LimitOK(reqs[1].search, ThePolicy) /\ OffsetOK(reqs[1].search)
    /\ Len(reqs[1].search.OrderBy) = 2
    /\ reqs[1].calls[1].err = ErrOrderField(reqs[1].search.OrderBy[2].Field)
    /\ Failing(TreeChecks(reqs[1].search, ThePolicy)) # {}

TheError == validateSearchRequest(reqs[1].search, handlers[1], maps)

\* the middleware went downstream with the search attached, or is about to
Accepted ==
    \/ reqs[1].pc = "attach"
    \/ reqs[1].pc = "done" /\ reqs[1].calls = <<NextCall(WithValue(reqs[1].ctx, reqs[1].search))>>

\* the middleware stopped at the error callback with the error
Rejected(err) ==
    reqs[1].pc = "done" /\ reqs[1].calls = <<ErrorCall(handlers[1], err, reqs[1].ctx)>>

\* C8 as stated: a search request with no root group, no order clauses, no
\* limit and no offset is accepted under every policy, a policy with a max
\* limit included.
C8_EmptyAcceptedByEveryPolicy ==
    reqs[1].search = ZeroSearchRequest =>
        /\ TheError = nil
        /\ reqs[1].pc # "validate" => Accepted

\* C8 amended: a search request with no root group, no order clauses, no
\* limit and no offset is accepted under every policy that has no max
\* limit, whatever its allow-sets, the empty ones included; under a policy
\* with a max limit it is rejected with the limit-is-mandatory error.
C8_EmptyAcceptedWithoutMaxLimit ==
    reqs[1].search = ZeroSearchRequest =>
        IF IsSome(handlers[1].limit)
        THEN /\ TheError = ErrLimitMandatory
             /\ reqs[1].pc # "validate" => Rejected(ErrLimitMandatory)
        ELSE /\ TheError = nil
             /\ reqs[1].pc # "validate" => Accepted

\* C8 witness: the empty request went downstream under a policy with no
\* max limit whose four allow-sets are empty.
C8_Witness ==
    /\ reqs[1].search = ZeroSearchRequest
    /\ reqs[1].pc = "done" /\ Accepted
    /\ ~IsSome(handlers[1].limit)
    /\ \A set \in AllowSets : ThePolicy[set] = {}

\* C8 witness of the rejection: the empty request under a max limit.
C8_WitnessMandatory ==
    /\ reqs[1].search = ZeroSearchRequest
    /\ IsSome(handlers[1].limit)
    /\ Rejected(ErrLimitMandatory)

LimitErrors(p) ==
    {ErrInvalidLimit, ErrLimitMandatory}
        \cup (IF IsSome(p.limit) THEN {ErrLimitExceeded(Get(p.limit))} ELSE {})

\* C9: under a policy with max limit m, a request whose limit is present
\* and not negative gets the limit-exceeded error, whose message ends in m,
\* exactly when its limit is greater than m; a limit of m or less, 0
\* included, gets no limit error at all.
C9_LimitExceededIffAboveMax ==
    (/\ IsSome(handlers[1].limit)
     /\ IsSome(reqs[1].search.Limit)
     /\ Get(reqs[1].search.Limit) >= 0) =>
        /\ (TheError = "limit must be between 0 and " \o ToString(Get(handlers[1].limit)))
              <=> Get(reqs[1].search.Limit) > Get(handlers[1].limit)
        /\ Get(reqs[1].search.Limit) <= Get(handlers[1].limit) =>
              TheError \notin LimitErrors(ThePolicy)
        /\ (reqs[1].pc = "done" /\ Get(reqs[1].search.Limit) > Get(handlers[1].limit)) =>
              Rejected(ErrLimitExceeded(Get(handlers[1].limit)))

\* C9 witness: a request with limit = m went downstream under max limit m,
\* m greater than 0.
C9_Witness ==
    /\ IsSome(handlers[1].limit) /\ Get(handlers[1].limit) > 0
    /\ reqs[1].search.Limit = handlers[1].limit
    /\ reqs[1].pc = "done" /\ Accepted

\* C9 witness of the rejection: limit = m + 1 under max limit m.
C9_WitnessExceeded ==
    /\ IsSome(handlers[1].limit)
    /\ reqs[1].search.Limit = Some(Get(handlers[1].limit) + 1)
    /\ Rejected(ErrLimitExceeded(Get(handlers[1].limit)))

\* the groups and filters of a tree in validation order: a group, then its
\* filters in sequence order, then its nested groups, each with its own
\* filters and groups, in sequence order
RECURSIVE ItemsOfGroup(_)
RECURSIVE ItemsOfForest(_)
ItemsOfGroup(g) ==
    <<[kind |-> "group", Field |-> "", Op |-> g.Op]>>
        \o [i \in DOMAIN g.Filters |->
              [kind |-> "filter", Field |-> g.Filters[i].Field, Op |-> g.Filters[i].Op]]
        \o ItemsOfForest(g.Groups)

ItemsOfForest(groups) ==
    IF groups = <<>> THEN <<>>
    ELSE ItemsOfGroup(Head(groups)) \o ItemsOfForest(Tail(groups))

Items(s) == IF IsSome(s.Groups) THEN ItemsOfGroup(Get(s.Groups)) ELSE <<>>

BadField(item, p) == item.kind = "filter" /\ item.Field \notin p.allowedFilterFields

Violates(item, p) ==
    IF item.kind = "group" THEN item.Op \notin p.allowedLogicalOperators
    ELSE item.Field \notin p.allowedFilterFields
            \/ item.Op \notin p.allowedRelationalOperators

\* item i is the first violation in validation order
FirstViolationAt(items, i, p) ==
    Violates(items[i], p) /\ \A j \in 1..(i - 1) : ~Violates(items[j], p)

\* C10: a request that passes the limit, offset and order-field checks and
\* has, at any depth of its filter tree, a filter whose field is not an
\* allowed filter field is rejected; when such a filter is the first
\* violation in validation order, the error is the filter-field error that
\* names its field.
C10_DisallowedFilterFieldRejected ==
    (/\ LimitOK(reqs[1].search, ThePolicy)
     /\ OffsetOK(reqs[1].search)
     /\ OrderOK(reqs[1].search, ThePolicy)) =>
        \A i \in DOMAIN Items(reqs[1].search) :
            BadField(Items(reqs[1].search)[i], ThePolicy) =>
                /\ TheError # nil
                /\ reqs[1].pc # "attach"
                /\ reqs[1].pc = "done" => Rejected(TheError)
                /\ FirstViolationAt(Items(reqs[1].search), i, ThePolicy) =>
                      TheError = "field \"" \o Items(reqs[1].search)[i].Field
                                      \o "\" not allowed in filters"

\* C10 witness: the only disallowed field is in a filter of a nested group,
\* the groups' operators are allowed, and the request was rejected with the
\* error naming the field.
C10_Witness ==
    /\ IsSome(reqs[1].search.Groups)
    /\ Get(reqs[1].search.Groups).Op \in ThePolicy.allowedLogicalOperators
    /\ Get(reqs[1].search.Groups).Filters = <<>>
    /\ Len(Get(reqs[1].search.Groups).Groups) = 1
    /\ Get(reqs[1].search.Groups).Groups[1].Op \in ThePolicy.allowedLogicalOperators
    /\ Len(Get(reqs[1].search.Groups).Groups[1].Filters) = 1
    /\ Get(reqs[1].search.Groups).Groups[1].Filters[1].Field = "email"
    /\ ThePolicy.allowedFilterFields = {"id"}
    /\ Rejected(ErrFilterField("email"))

\* C10 witness of the other case: a disallowed field that is not the first
\* violation: the request was rejected with the error of the root group's
\* operator.
C10_WitnessNotFirst ==
    /\ IsSome(reqs[1].search.Groups)
    /\ Get(reqs[1].search.Groups).Op \notin ThePolicy.allowedLogicalOperators
    /\ Len(Get(reqs[1].search.Groups).Filters) = 1
    /\ Get(reqs[1].search.Groups).Filters[1].Field \notin ThePolicy.allowedFilterFields
    /\ Rejected(ErrLogicalOperator(Get(reqs[1].search.Groups).Op))

(***************************************************************************)
(* Properties of the middleware.  The request served is reqs[1].           *)
(***************************************************************************)
CallsTo(fn) == {i \in DOMAIN reqs[1].calls : reqs[1].calls[i].fn = fn}

\* the text of the configured parameter in the request's query
TheText == QueryGet(reqs[1].query, handlers[1].queryParam)

\* C3: a request the middleware has finished with had exactly one outcome:
\* one call of the downstream handler and none of the error callback, or
\* one call of the error callback, none of the downstream handler and no
\* search request attached; before that it is at one of its four steps
\* and nothing was called.  A search request is attached only
\* to the request handed downstream, and only when the parameter's text
\* decoded without error to that request and validation accepted it.
C3_ExactlyOneOutcome ==
    /\ reqs[1].pc \in {"start", "decode", "validate", "attach", "done"}
    /\ reqs[1].pc # "done" => reqs[1].calls = <<>>
    /\ reqs[1].pc = "done" =>
          /\ Len(reqs[1].calls) = 1
          /\ Cardinality(CallsTo("next")) + Cardinality(CallsTo("errorHandler")) = 1
          /\ reqs[1].err # nil <=> CallsTo("errorHandler") # {}
    /\ GetSearchRequest(reqs[1].ctx) = None
    /\ \A i \in CallsTo("errorHandler") : Attached(reqs[1].calls[i]) = None
    /\ \A i \in CallsTo("next") :
          IsSome(Attached(reqs[1].calls[i])) =>
              /\ TheText # <<>>
              /\ Decode(TheText).err = nil
              /\ Attached(reqs[1].calls[i]) = Some(Decode(TheText).v)
              /\ validateSearchRequest(Decode(TheText).v, handlers[1], maps) = nil

\* C3 witness, outcome (a): the downstream handler was called once with a
\* decoded search request that has a root group attached.
C3_Witness ==
    /\ reqs[1].pc = "done"
    /\ CallsTo("next") = {1}
    /\ IsSome(Attached(reqs[1].calls[1]))
    /\ IsSome(Get(Attached(reqs[1].calls[1])).Groups)

\* C3 witness, outcome (b) after decoding: the error callback was called
\* once with a validation error.
C3_WitnessStopped ==
    /\ reqs[1].pc = "done"
    /\ CallsTo("errorHandler") = {1}
    /\ TheText # <<>>
    /\ Decode(TheText).err = nil
    /\ reqs[1].calls[1].err = ErrLimitMandatory

\* C3 witness, outcome (a) with nothing attached: an optional parameter
\* was absent.
C3_WitnessSkipped ==
    /\ reqs[1].pc = "done"
    /\ CallsTo("next") = {1}
    /\ Attached(reqs[1].calls[1]) = None

\* the configured parameter is not in the request's query
Absent == handlers[1].queryParam \notin DOMAIN reqs[1].query

\* C11: under a mandatory policy a request without the configured parameter
\* goes in one step from the start to the error callback, called once with
\* the missing-parameter error: it never is at the decoding or validation
\* step and the downstream handler is not called.
C11_MandatoryAbsentReported ==
    [][(Absent /\ handlers[1].isSearchMandatory) =>
          /\ reqs[1].pc = "start"
          /\ reqs'[1].pc = "done"
          /\ reqs'[1].calls =
                <<ErrorCall(handlers[1],
                            "missing \"" \o handlers[1].queryParam \o "\" query parameter",
                            reqs[1].ctx)>>
          /\ reqs'[1].search = ZeroSearchRequest]_vars

\* C11 witness: a request with another parameter only was reported missing.
C11_Witness ==
    /\ Absent /\ handlers[1].isSearchMandatory
    /\ reqs[1].query # <<>>
    /\ reqs[1].pc = "done"
    /\ CallsTo("errorHandler") = {1} /\ CallsTo("next") = {}
    /\ reqs[1].calls[1].err = ErrMissingParameter(handlers[1].queryParam)

\* C12: under a policy that is not mandatory a request without the
\* configured parameter goes in one step from the start to the downstream
\* handler, called once with the request as it came: GetSearchRequest finds
\* nothing in it, nothing was decoded or validated and the error callback
\* is not called.
C12_OptionalAbsentContinues ==
    [][(Absent /\ ~handlers[1].isSearchMandatory) =>
          /\ reqs[1].pc = "start"
          /\ reqs'[1].pc = "done"
          /\ reqs'[1].calls = <<NextCall(reqs[1].ctx)>>
          /\ GetSearchRequest(reqs'[1].calls[1].ctx) = None
          /\ reqs'[1].ctx = reqs[1].ctx /\ reqs'[1].query = reqs[1].query
          /\ reqs'[1].search = ZeroSearchRequest /\ reqs'[1].err = nil]_vars

\* C12 witness: a request with no parameter at all went downstream with
\* nothing attached.
C12_Witness ==
    /\ Absent /\ ~handlers[1].isSearchMandatory
    /\ reqs[1].pc = "done"
    /\ reqs[1].calls = <<NextCall(reqs[1].ctx)>>
    /\ GetSearchRequest(reqs[1].calls[1].ctx) = None

\* C13: a request whose query holds the configured parameter, with an empty
\* value or not, is decoded and validated under mandatory and non-mandatory
\* policies alike: from the start it goes to the decoding step, it is never
\* reported with the missing-parameter error, and it reaches the downstream
\* handler only when its text decoded without error and validation
\* accepted the result.
C13_PresentIsDecoded ==
    [][~Absent =>
          /\ reqs[1].pc = "start" => reqs'[1].pc = "decode"
          /\ \A i \in DOMAIN reqs'[1].calls :
                /\ reqs'[1].calls[i].err # ErrMissingParameter(handlers[1].queryParam)
                /\ reqs'[1].calls[i].fn = "next" =>
                      /\ TheText # <<>>
                      /\ Decode(TheText).err = nil
                      /\ validateSearchRequest(Decode(TheText).v, handlers[1], maps) = nil]_vars

(***************************************************************************)
(* validateGroup applied to deeper trees: the groups of up to MaxTreeNodes *)
(* groups and filters over three operator tokens, two of them outside the  *)
(* registry, so that the violations of two groups of a tree are told apart *)
(* by their errors.  The request has no limit, offset or order clauses.    *)
(***************************************************************************)
MaxTreeNodes == 4

TreeLogicalTokens == {"and", "xor", "nor"}

RECURSIVE TreesOfSize(_)
RECURSIVE TreeForestsOfSize(_)
TreesOfSize(n) ==
    UNION {{FilterGroup(op, fs, gs) :
                op \in TreeLogicalTokens,
                fs \in {q \in SeqsUpTo(Filters, nf) : Len(q) = nf},
                gs \in TreeForestsOfSize(n - 1 - nf)} : nf \in 0..(n - 1)}

TreeForestsOfSize(n) ==
    IF n = 0 THEN {<<>>}
    ELSE UNION {{<<g>> \o rest : g \in TreesOfSize(first),
                                 rest \in TreeForestsOfSize(n - first)} : first \in 1..n}

Trees == UNION {TreesOfSize(k) : k \in 1..MaxTreeNodes}

TreePolicyMaps ==
    {m \in PolicyMaps :
        /\ m[defaultLogicalOperators] = logicalOperators
        /\ m[defaultOrderFields] = {}}

InitTree ==
    /\ InitScalars
    /\ maps \in TreePolicyMaps
    /\ handlers = <<PolicyConfig("q", TRUE, None)>>
    /\ \E g \in Trees :
          reqs = <<[h |-> 1, ctx |-> <<>>, pc |-> "validate",
                    search |-> SearchRequest(Some(g), <<>>, None, None),
                    err |-> nil, calls |-> <<>>]>>

NextTree ==
    \/ \E r \in DOMAIN reqs : ServeValidate(r)
    \/ \E r \in DOMAIN reqs : ServeNext(r)

SpecTree == InitTree /\ [][NextTree]_vars

\* the error the check of a violating item reports
ErrorOf(item, p) ==
    IF item.kind = "group" THEN ErrLogicalOperator(item.Op)
    ELSE IF item.Field \notin p.allowedFilterFields THEN ErrFilterField(item.Field)
    ELSE ErrRelationalOperator(item.Op, item.Field)

Violating(items, p) == {i \in DOMAIN items : Violates(items[i], p)}

\* the error of the first violating item of a sequence of items, nil when
\* there is none
FirstError_Items(items, p) ==
    IF Violating(items, p) = {} THEN nil
    ELSE ErrorOf(items[CHOOSE i \in Violating(items, p) :
                          \A j \in Violating(items, p) : i <= j], p)

TheRoot == Get(reqs[1].search.Groups)

\* the root group without its nested groups: its op and its own filters
OwnItems(g) == ItemsOfGroup([g EXCEPT !.Groups = <<>>])

\* the nested groups of g whose subtree holds a violation
ViolatingSubtrees(g, p) ==
    {k \in DOMAIN g.Groups : Violating(ItemsOfGroup(g.Groups[k]), p) # {}}

\* C14: the filter tree is validated depth-first in declaration order.
\* The error returned for a tree is the error of the first violating item
\* when the tree is read group op first, then the group's filters in
\* sequence (field before operator), then each nested group in sequence,
\* each read the same way to its end before the next.  Hence a violation
\* in the root's op or filters is the one reported, whatever the nested
\* groups hold, and with the root's op and filters valid the error reported
\* is that of the earliest nested group whose subtree holds a violation.
C14_DepthFirstDeclarationOrder ==
    IsSome(reqs[1].search.Groups) =>
        /\ TheError = FirstError_Items(Items(reqs[1].search), ThePolicy)
        /\ Violating(OwnItems(TheRoot), ThePolicy) # {} =>
              TheError = FirstError_Items(OwnItems(TheRoot), ThePolicy)
        /\ (/\ Violating(OwnItems(TheRoot), ThePolicy) = {}
            /\ ViolatingSubtrees(TheRoot, ThePolicy) # {}) =>
              \E k \in ViolatingSubtrees(TheRoot, ThePolicy) :
                  /\ \A j \in ViolatingSubtrees(TheRoot, ThePolicy) : k <= j
                  /\ TheError =
                        validateGroup(Some(TheRoot.Groups[k]), handlers[1], maps)
                  /\ TheError =
                        FirstError_Items(ItemsOfGroup(TheRoot.Groups[k]), ThePolicy)
        /\ reqs[1].pc = "done" /\ TheError # nil => Rejected(TheError)

\* C14 witness: the root and its first nested group have allowed ops, a
\* filter of the first nested group has a disallowed field, the second
\* nested group has a disallowed op, and the field's error was reported.
C14_Witness ==
    /\ IsSome(reqs[1].search.Groups)
    /\ TheRoot.Op \in ThePolicy.allowedLogicalOperators
    /\ TheRoot.Filters = <<>>
    /\ Len(TheRoot.Groups) = 2
    /\ TheRoot.Groups[1].Op \in ThePolicy.allowedLogicalOperators
    /\ Len(TheRoot.Groups[1].Filters) = 1
    /\ TheRoot.Groups[1].Filters[1].Field \notin ThePolicy.allowedFilterFields
    /\ TheRoot.Groups[2].Op \notin ThePolicy.allowedLogicalOperators
    /\ Rejected(ErrFilterField(TheRoot.Groups[1].Filters[1].Field))

\* C14 witness for parent before child: a root filter's operator and the
\* nested group's op are both disallowed, and the filter's error was
\* reported.
C14_WitnessParentFirst ==
    /\ IsSome(reqs[1].search.Groups)
    /\ TheRoot.Op \in ThePolicy.allowedLogicalOperators
    /\ Len(TheRoot.Filters) = 2
    /\ ~Violates(ItemsOfGroup(TheRoot)[2], ThePolicy)
    /\ TheRoot.Filters[2].Field \in ThePolicy.allowedFilterFields
    /\ TheRoot.Filters[2].Op \notin ThePolicy.allowedRelationalOperators
    /\ Len(TheRoot.Groups) = 1
    /\ TheRoot.Groups[1].Op \notin ThePolicy.allowedLogicalOperators
    /\ Rejected(ErrRelationalOperator(TheRoot.Filters[2].Op, TheRoot.Filters[2].Field))

(***************************************************************************)
(* The wire format as the payload's grammar: what is well-formed JSON and  *)
(* which member names each object of the payload may hold.                 *)
(***************************************************************************)
RECURSIVE IsJSON(_)
IsJSON(j) ==
    /\ j.t # "invalid"
    /\ \A i \in DOMAIN j.a : IsJSON(j.a[i])

\* the text is one JSON value and nothing else
WellFormed(text) == Len(text) = 1 /\ IsJSON(text[1])

SearchRequestNames == {"groups", "order_by", "limit", "offset"}
FilterGroupNames == {"op", "filters", "groups"}
FilterNames == {"field", "op", "value"}
OrderClauseNames == {"field", "direction"}

\* the member values of object j under the name key
Members(j, key) == {j.a[i] : i \in {i \in DOMAIN j.k : j.k[i] = key}}

ArrayItems(j) == IF j.t = "array" THEN Range(j.a) ELSE {}

UnknownNameIn(j, names) == j.t = "object" /\ Range(j.k) \ names # {}

RECURSIVE UnknownNameInGroup(_)
UnknownNameInGroup(j) ==
    \/ UnknownNameIn(j, FilterGroupNames)
    \/ \E fs \in Members(j, "filters") : \E f \in ArrayItems(fs) :
          UnknownNameIn(f, FilterNames)
    \/ \E gs \in Members(j, "groups") : \E g \in ArrayItems(gs) :
          UnknownNameInGroup(g)

\* the payload holds, at the top, in a group at any depth, in a filter or
\* in an order clause, a member name that is not of the wire format
UnknownName(j) ==
    \/ UnknownNameIn(j, SearchRequestNames)
    \/ \E g \in Members(j, "groups") : UnknownNameInGroup(g)
    \/ \E os \in Members(j, "order_by") : \E o \in ArrayItems(os) :
          UnknownNameIn(o, OrderClauseNames)

\* C15: a present payload that is malformed or holds a member name that is
\* not of the wire format, at any level, is rejected at decode time: the
\* request never is at the validation or attach step, and it ends with the
\* error callback called once with the decode error, nothing attached and
\* the downstream handler not called.
C15_StrictDecode ==
    (/\ TheText # <<>>
     /\ ~WellFormed(TheText) \/ UnknownName(TheText[1])) =>
        /\ reqs[1].pc \notin {"validate", "attach"}
        /\ reqs[1].pc = "done" =>
              /\ Decode(TheText).err # nil
              /\ reqs[1].calls = <<ErrorCall(handlers[1], Decode(TheText).err, reqs[1].ctx)>>
              /\ Attached(reqs[1].calls[1]) = None

\* contexts in which the search key holds nothing, or a value of another
\* type than *SearchRequest
ForeignContexts ==
    <<<<>>,
      [k \in {searchKey} |-> [type |-> "string", v |-> "search"]],
      [k \in {searchKey} |-> [type |-> "SearchRequest", v |-> ZeroSearchRequest]],
      [k \in {"requestID"} |-> [type |-> "*SearchRequest", v |-> ZeroSearchRequest]]>>

\* C16: GetSearchRequest in the downstream handler returns the search
\* request decoded from the request's own parameter, field for field what
\* the payload holds, whenever the middleware decoded one; it returns nil
\* when the middleware attached nothing (the parameter was skipped) and
\* for any context whose search key holds no *SearchRequest.
C16_GetSearchRequestReturnsDecoded ==
    /\ \A i \in CallsTo("next") :
          IF TheText = <<>>
          THEN GetSearchRequest(reqs[1].calls[i].ctx) = None
          ELSE /\ GetSearchRequest(reqs[1].calls[i].ctx) = Some(Decode(TheText).v)
               /\ \A s \in WireSearchRequests :
                     TheText = <<Encode(s)>> =>
                         GetSearchRequest(reqs[1].calls[i].ctx) = Some(s)
    /\ \A i \in DOMAIN ForeignContexts : GetSearchRequest(ForeignContexts[i]) = None
    /\ GetSearchRequest(reqs[1].ctx) = None

\* C16 witness: the downstream handler got the request of a payload with a
\* root group, a nested group, an order clause, a limit and an offset.
C16_Witness ==
    /\ reqs[1].pc = "done"
    /\ CallsTo("next") = {1}
    /\ TheText = <<Encode(reqs[1].search)>>
    /\ IsSome(reqs[1].search.Groups)
    /\ Get(reqs[1].search.Groups).Groups # <<>>
    /\ reqs[1].search.OrderBy # <<>>
    /\ IsSome(reqs[1].search.Limit) /\ IsSome(reqs[1].search.Offset)
    /\ GetSearchRequest(reqs[1].calls[1].ctx) = Some(reqs[1].search)

(***************************************************************************)
(* Two requests served by the same handler at the same time: each call of  *)
(* the handler function has its own s, search and err, the steps of the    *)
(* two calls interleave in every order.                                    *)
(***************************************************************************)
ConcurrentTexts ==
    {<<>>, <<JInvalid>>}
    \cup {<<Encode(s)>> : s \in SearchRequestsOf(1, 0, MaxLimit..(MaxLimit + 1), {})}

ConcurrentQueries ==
    {<<>>} \cup {[p \in {"q"} |-> text] : text \in ConcurrentTexts}

\* the context request r arrives with: the values earlier middleware put
\* in it, here the id of the request
ArrivalContext(r) == [k \in {"requestID"} |-> [type |-> "string", v |-> Itoa(r)]]

InitConcurrent ==
    /\ InitScalars
    /\ maps \in PolicyMaps
    /\ \E b \in BOOLEAN, limit \in {None, Some(MaxLimit)} :
          handlers = <<PolicyConfig("q", b, limit)>>
    /\ \E q1 \in ConcurrentQueries, q2 \in ConcurrentQueries :
          reqs = <<[NewRequest(1, q1) EXCEPT !.ctx = ArrivalContext(1)],
                   [NewRequest(1, q2) EXCEPT !.ctx = ArrivalContext(2)]>>

NextConcurrent ==
    \/ \E r \in DOMAIN reqs : ServeGetParam(r)
    \/ \E r \in DOMAIN reqs : ServeDecode(r)
    \/ \E r \in DOMAIN reqs : ServeValidate(r)
    \/ \E r \in DOMAIN reqs : ServeNext(r)

SpecConcurrent == InitConcurrent /\ [][NextConcurrent]_vars

\* what the handler function does with a request served alone, from the
\* first line to the last: the one call it ends with
AloneAfterDecode(req, c, m, d) ==
    IF d.err # nil THEN ErrorCall(c, d.err, req.ctx)
    ELSE IF validateSearchRequest(d.v, c, m) # nil
         THEN ErrorCall(c, validateSearchRequest(d.v, c, m), req.ctx)
    ELSE NextCall(WithValue(req.ctx, d.v))

Alone(req, c, m) ==
    IF QueryGet(req.query, c.queryParam) = <<>>
    THEN IF c.isSearchMandatory
         THEN ErrorCall(c, ErrMissingParameter(c.queryParam), req.ctx)
         ELSE NextCall(req.ctx)
    ELSE AloneAfterDecode(req, c, m, Decode(QueryGet(req.query, c.queryParam)))

\* C17: requests served at the same time by one handler do not interfere:
\* in every interleaving of their steps a finished request has made the
\* one call, with the error or with the search request attached, that it
\* makes when it is served alone, and the search request a downstream
\* handler finds is the one decoded from its own request's parameter;
\* a request that has not finished has made no call.
C17_ConcurrentRequestsIndependent ==
    \A r \in DOMAIN reqs :
        /\ reqs[r].pc # "done" => reqs[r].calls = <<>>
        /\ reqs[r].pc = "done" =>
              /\ reqs[r].calls = <<Alone(reqs[r], handlers[reqs[r].h], maps)>>
              /\ IsSome(Attached(reqs[r].calls[1])) =>
                    Attached(reqs[r].calls[1]) =
                        Some(Decode(QueryGet(reqs[r].query,
                                             handlers[reqs[r].h].queryParam)).v)

\* C17 witness: two requests with different payloads were served together
\* and each downstream handler found its own search request.
C17_Witness ==
    /\ Len(reqs) = 2
    /\ reqs[1].pc = "done" /\ reqs[2].pc = "done"
    /\ IsSome(Attached(reqs[1].calls[1]))
    /\ IsSome(Attached(reqs[2].calls[1]))
    /\ Attached(reqs[1].calls[1]) # Attached(reqs[2].calls[1])
    /\ IsSome(Get(Attached(reqs[1].calls[1])).Groups)

\* C17 witness of a mixed outcome: one request was rejected by validation
\* while the other went downstream.
C17_WitnessMixed ==
    /\ Len(reqs) = 2
    /\ reqs[1].pc = "done" /\ reqs[2].pc = "done"
    /\ reqs[1].calls[1].fn = "errorHandler"
    /\ reqs[1].calls[1].err = ErrLimitExceeded(MaxLimit)
    /\ IsSome(Attached(reqs[2].calls[1]))

\* the calls request r makes in this step
NewCalls(r) ==
    {reqs'[r].calls[i] : i \in DOMAIN reqs'[r].calls \ DOMAIN reqs[r].calls}

\* ctx is base with one value written, under the search key
WrittenOnce(ctx, base) ==
    /\ DOMAIN ctx = DOMAIN base \cup {searchKey}
    /\ searchKey \notin DOMAIN base
    /\ \A k \in DOMAIN base : ctx[k] = base[k]

\* C18: a step of a request changes nothing but that request: the
\* handler's policy, the allow-sets and the process-wide defaults stay as
\* they are whatever the outcome, and the request keeps its query and its
\* own context.  The request handed downstream after decoding and
\* validation is the request with exactly one value written, under the
\* search key; the request handed to the error callback, or downstream
\* when the parameter was skipped, is the request as it came.
C18_RequestWritesOnlyItsStore ==
    [][/\ handlers' = handlers /\ maps' = maps
       /\ \A i \in DOMAIN handlers :
             Policy(handlers'[i], maps') = Policy(handlers[i], maps)
       /\ Defaults' = Defaults
       /\ <<defaultQueryParam, defaultSearchMandatory, defaultLimit,
            defaultErrorHandler>>' =
          <<defaultQueryParam, defaultSearchMandatory, defaultLimit,
            defaultErrorHandler>>
       /\ \A r \in DOMAIN reqs :
             /\ reqs'[r].ctx = reqs[r].ctx
             /\ reqs'[r].query = reqs[r].query
             /\ Len(reqs'[r].calls) <= 1
             /\ \A call \in NewCalls(r) :
                   IF /\ call.fn = "next"
                      /\ QueryGet(reqs[r].query, handlers[reqs[r].h].queryParam) # <<>>
                   THEN WrittenOnce(call.ctx, reqs[r].ctx)
                   ELSE call.ctx = reqs[r].ctx]_vars

\* C18 witness: of two requests that arrived with a value in their
\* contexts one went downstream with the search written next to it, the
\* other was handed to the error callback as it came.
C18_Witness ==
    /\ Len(reqs) = 2
    /\ reqs[1].pc = "done" /\ reqs[2].pc = "done"
    /\ reqs[1].calls[1].fn = "next"
    /\ DOMAIN reqs[1].calls[1].ctx = {"requestID", searchKey}
    /\ reqs[1].ctx = ArrivalContext(1)
    /\ reqs[2].calls[1].fn = "errorHandler"
    /\ reqs[2].calls[1].ctx = ArrivalContext(2)

(***************************************************************************)
(* The operator registry's Symbol methods (lines 83-92 and 111-135),       *)
(* called by the importing code on any token: LogicalOperator and          *)
(* RelationalOperator are string types, every string converts to them.     *)
(***************************************************************************)
MaxSymbolCalls == 2

OperatorTokens ==
    logicalOperators \cup relationalOperators
        \cup {"", "xor", "regex", "EQ", "=", "AND"}

\* func (o LogicalOperator) Symbol() string
LogicalOperatorSymbol(o) ==
    CASE o = OrOperator -> OrOperator
      [] OTHER -> AndOperator

\* a switch in which a token that is not recognized is returned as it is
RelationalOperatorSymbolEcho(o) ==
    CASE o = NotEqualsOperator -> "<>"
      [] o = GreaterThanOperator -> ">"
      [] o = GreaterThanEqualsOperator -> ">="
      [] o = LowerThanOperator -> "<"
      [] o = LowerThanEqualsOperator -> "<="
      [] o = LikeOperator -> "like"
      [] o = ILikeOperator -> "ilike"
      [] o = InOperator -> "in"
      [] o = EqualsOperator -> "="
      [] OTHER -> o

\* func (o RelationalOperator) Symbol() string
RelationalOperatorSymbol(o) ==
    CASE o = NotEqualsOperator -> "<>"
      [] o = GreaterThanOperator -> ">"
      [] o = GreaterThanEqualsOperator -> ">="
      [] o = LowerThanOperator -> "<"
      [] o = LowerThanEqualsOperator -> "<="
      [] o = LikeOperator -> "like"
      [] o = ILikeOperator -> "ilike"
      [] o = InOperator -> "in"
      [] OTHER -> "="

\* a call of o.Symbol() that has not returned yet
SymbolCall(type, o) == [type |-> type, o |-> o, pc |-> "call", symbol |-> ""]

CallLogicalOperatorSymbol(i) ==
    /\ symbolCalls[i].pc = "call"
    /\ symbolCalls[i].type = "LogicalOperator"
    /\ symbolCalls' = [symbolCalls EXCEPT ![i].pc = "return",
                                          ![i].symbol = LogicalOperatorSymbol(symbolCalls[i].o)]
    /\ UNCHANGED <<defaultQueryParam, defaultSearchMandatory, defaultLimit,
                   defaultErrorHandler, maps, handlers, setCalls, pending, reqs,
                   setLimitArg, otherPackages>>

CallRelationalOperatorSymbol(i) ==
    /\ symbolCalls[i].pc = "call"
    /\ symbolCalls[i].type = "RelationalOperator"
    /\ symbolCalls' = [symbolCalls EXCEPT ![i].pc = "return",
                                          ![i].symbol = RelationalOperatorSymbol(symbolCalls[i].o)]
    /\ UNCHANGED <<defaultQueryParam, defaultSearchMandatory, defaultLimit,
                   defaultErrorHandler, maps, handlers, setCalls, pending, reqs,
                   setLimitArg, otherPackages>>

InitSymbol ==
    /\ InitPackage
    /\ handlers = <<>>
    /\ pending = <<>>
    /\ reqs = <<>>
    /\ setLimitArg = None
    /\ InitOtherPackages
    /\ symbolCalls \in SeqsUpTo({SymbolCall(type, o) :
                                    type \in {"LogicalOperator", "RelationalOperator"},
                                    o \in OperatorTokens}, MaxSymbolCalls)

NextSymbol ==
    \/ \E i \in DOMAIN symbolCalls : CallLogicalOperatorSymbol(i)
    \/ \E i \in DOMAIN symbolCalls : CallRelationalOperatorSymbol(i)

SpecSymbol == InitSymbol /\ [][NextSymbol]_vars

\* the symbols of the known tokens
RelationalSymbols ==
    [eq |-> "=", ne |-> "<>", gt |-> ">", gte |-> ">=", lt |-> "<", lte |-> "<=",
     like |-> "like", ilike |-> "ilike", in |-> "in"]

LogicalSymbols == [and |-> "and", or |-> "or"]

ExpectedSymbol(type, o) ==
    IF type = "RelationalOperator"
    THEN IF o \in DOMAIN RelationalSymbols THEN RelationalSymbols[o] ELSE "="
    ELSE IF o \in DOMAIN LogicalSymbols THEN LogicalSymbols[o] ELSE "and"

\* C19: Symbol() never fails and maps as documented: every call returns;
\* RelationalOperator.Symbol() returns "=" for a token outside the nine
\* known ones and the known token's symbol otherwise, and
\* LogicalOperator.Symbol() returns "and" for a token other than and, or
\* and the token itself for these two.
C19_SymbolTotalWithDefaults ==
    \A i \in DOMAIN symbolCalls :
        /\ symbolCalls[i].pc \in {"call", "return"}
        /\ symbolCalls[i].pc = "return" =>
              /\ symbolCalls[i].symbol = ExpectedSymbol(symbolCalls[i].type, symbolCalls[i].o)
              /\ symbolCalls[i].symbol
                    \in {"=", "<>", ">", ">=", "<", "<=", "like", "ilike", "in", "and", "or"}

\* C19 witness: a relational and a logical call on tokens outside the
\* registry have returned the defaults.
C19_Witness ==
    /\ Len(symbolCalls) = 2
    /\ symbolCalls[1] = [type |-> "RelationalOperator", o |-> "regex",
                         pc |-> "return", symbol |-> "="]
    /\ symbolCalls[2] = [type |-> "LogicalOperator", o |-> "xor",
                         pc |-> "return", symbol |-> "and"]

(***************************************************************************)
(* The resolver on scalar options: the caller builds one option slice out  *)
(* of scalar options with two values of each kind (and one set-valued      *)
(* option among them), constructs handlers from it and makes SetDefault*   *)
(* calls before, between and after the constructions.                      *)
(***************************************************************************)
ScalarOptions ==
    {Opt("WithQueryParam", <<p>>, 0, FALSE) : p \in {"s", "search"}}
    \cup {Opt("WithSearchMandatory", <<>>, 0, b) : b \in BOOLEAN}
    \cup {Opt("WithLimit", <<>>, n, FALSE) : n \in LimitArgs}
    \cup {Opt("WithErrorHandler", <<h>>, 0, FALSE) :
             h \in {"customErrorHandler", "otherErrorHandler"}}
    \cup {Opt("WithFilterFields", <<"id">>, 0, FALSE)}

ScalarOptionLists == SeqsUpTo(ScalarOptions, MaxOpts)

InitScalarOptions ==
    /\ InitPackage
    /\ handlers = <<>>
    /\ pending \in ScalarOptionLists
    /\ reqs = <<>>
    /\ symbolCalls = <<>>
    /\ setLimitArg = None
    /\ InitOtherPackages

NextScalarOptions ==
    \/ \E p \in QueryParamArgs : SetDefaultQueryParam(p)
    \/ \E b \in BOOLEAN : SetDefaultSearchMandatory(b)
    \/ \E a \in LogicalArgs : SetDefaultLogicalOperators(a)
    \/ \E a \in RelationalArgs : SetDefaultRelationalOperators(a)
    \/ \E n \in LimitArgs : SetDefaultLimit(n)
    \/ \E h \in ErrorHandlerArgs : SetDefaultErrorHandler(h)
    \/ \E a \in FieldArgs : SetDefaultFilterFields(a)
    \/ \E a \in FieldArgs : SetDefaultOrderFields(a)
    \/ NewSearchHandler(pending)

SpecScalarOptions == InitScalarOptions /\ [][NextScalarOptions]_vars

\* the position of the last option built by the named With* in opts, 0 if
\* there is none
LastOption(opts, name) ==
    LET at == {k \in DOMAIN opts : opts[k].name = name}
    IN  IF at = {} THEN 0 ELSE CHOOSE k \in at : \A j \in at : j <= k

\* the scalars of a handler built from opts while the process-wide defaults
\* are g: the value given to the last option of the kind, the default when
\* there is none
ExpectedScalars(opts, g) ==
    [queryParam |->
        IF LastOption(opts, "WithQueryParam") = 0 THEN g.defaultQueryParam
        ELSE opts[LastOption(opts, "WithQueryParam")].strs[1],
     isSearchMandatory |->
        IF LastOption(opts, "WithSearchMandatory") = 0 THEN g.defaultSearchMandatory
        ELSE opts[LastOption(opts, "WithSearchMandatory")].b,
     limit |->
        IF LastOption(opts, "WithLimit") = 0 THEN g.defaultLimit
        ELSE IF opts[LastOption(opts, "WithLimit")].n < 0 THEN None
        ELSE Some(opts[LastOption(opts, "WithLimit")].n),
     errorHandler |->
        IF LastOption(opts, "WithErrorHandler") = 0 THEN g.defaultErrorHandler
        ELSE opts[LastOption(opts, "WithErrorHandler")].strs[1]]

Scalars(c) ==
    [queryParam |-> c.queryParam, isSearchMandatory |-> c.isSearchMandatory,
     limit |-> c.limit, errorHandler |-> c.errorHandler]

\* C20: scalar options overwrite: a handler just constructed has, for
\* parameter name, mandatory flag, max limit and error callback, the value
\* of the last option of that kind in the list, or the process-wide default
\* in force at the call when the list has none; and no later step, a
\* SetDefault* call for a scalar included, changes these four values of a
\* handler that exists.
C20_ScalarOptionsOverwrite ==
    [][/\ Constructs =>
             Scalars(handlers'[Len(handlers')]) = ExpectedScalars(pending, Globals)
       /\ \A i \in DOMAIN handlers : Scalars(handlers'[i]) = Scalars(handlers[i])]_vars

\* C20 witness: a handler built from two WithLimit options has the limit
\* of the second and the default parameter name of the time, which a later
\* SetDefaultQueryParam call has not changed.
C20_Witness ==
    /\ Len(handlers) >= 1
    /\ Len(pending) = 2
    /\ pending[1] = Opt("WithLimit", <<>>, 0, FALSE)
    /\ pending[2] = Opt("WithLimit", <<>>, 1, FALSE)
    /\ handlers[1].limit = Some(1)
    /\ handlers[1].queryParam = "q"
    /\ defaultQueryParam = "s"

(***************************************************************************)
(* Operator tokens and the registry (lines 102-105, 166-176, 366-382,      *)
(* 452-472).                                                               *)
(***************************************************************************)
\* a search whose root group has operator op and no content, and one whose
\* root group has one filter on field with operator op
GroupWithOp(op) == SearchRequest(Some(FilterGroup(op, <<>>, <<>>)), <<>>, None, None)

FilterWithOp(lop, field, op) ==
    SearchRequest(Some(FilterGroup(lop, <<Filter(field, op, "x")>>, <<>>)),
                  <<>>, None, None)

\* C21: under every policy SetDefault* calls and With* options produce, the
\* allowed logical operators are within {and, or} and the allowed
\* relational operators within the nine registry tokens, so a group whose
\* operator is outside the registry, or a filter whose operator is, is
\* rejected by validateSearchRequest of every handler.
C21_OperatorsWithinRegistry ==
    \A h \in DOMAIN handlers :
        LET p == Policy(handlers[h], maps)
        IN  /\ p.allowedLogicalOperators \subseteq logicalOperators
            /\ p.allowedRelationalOperators \subseteq relationalOperators
            /\ \A op \in LogicalTokens \ logicalOperators :
                  validateSearchRequest(GroupWithOp(op), handlers[h], maps) # nil
            /\ \A lop \in LogicalTokens, f \in FieldNames :
                  \A op \in RelationalTokens \ relationalOperators :
                      validateSearchRequest(FilterWithOp(lop, f, op),
                                            handlers[h], maps) # nil

(***************************************************************************)
(* The max limit from configuration to validation: the caller makes its    *)
(* SetDefaultLimit calls, constructs handlers from a list of WithLimit     *)
(* options, and a request whose payload holds at most a limit arrives.     *)
(***************************************************************************)
\* the server calls the middleware of handler h with a request (line 558)
Arrive(h, query) ==
    /\ reqs = <<>>
    /\ reqs' = <<NewRequest(h, query)>>
    /\ UNCHANGED configVars

LimitOptionLists ==
    SeqsUpTo({Opt("WithLimit", <<>>, n, FALSE) : n \in LimitArgs}, MaxOpts)

LimitQueries ==
    {[p \in {"q"} |-> <<Encode(SearchRequest(None, <<>>, l, None))>>] :
        l \in Optional((0 - 1)..(MaxLimit + 1))}

InitLimit ==
    /\ InitPackage
    /\ handlers = <<>>
    /\ pending \in LimitOptionLists
    /\ reqs = <<>>
    /\ symbolCalls = <<>>
    /\ setLimitArg = None
    /\ InitOtherPackages

NextLimit ==
    \/ \E n \in LimitArgs : SetDefaultLimit(n)
    \/ NewSearchHandler(pending)
    \/ \E h \in DOMAIN handlers, query \in LimitQueries : Arrive(h, query)
    \/ \E r \in DOMAIN reqs : ServeGetParam(r)
    \/ \E r \in DOMAIN reqs : ServeDecode(r)
    \/ \E r \in DOMAIN reqs : ServeValidate(r)
    \/ \E r \in DOMAIN reqs : ServeNext(r)

SpecLimit == InitLimit /\ [][NextLimit]_vars

\* the limit argument in force for a handler built from opts: that of the
\* last WithLimit option, else that of the last SetDefaultLimit call
LimitArgument(opts, set) ==
    IF LastOption(opts, "WithLimit") # 0
    THEN Some(opts[LastOption(opts, "WithLimit")].n)
    ELSE set

\* request req of a handler with config c went downstream with its search
\* attached, and was answered by the error callback with err
WentDownstream(req) ==
    req.calls = <<NextCall(WithValue(req.ctx, req.search))>>

AnsweredWith(req, c, err) == req.calls = <<ErrorCall(c, err, req.ctx)>>

\* what a served request of a handler with max limit max has met
LimitOutcome(req, c) ==
    LET l == req.search.Limit
    IN  IF ~IsSome(c.limit)
        THEN /\ req.err \notin {ErrLimitMandatory}
                    \cup {ErrLimitExceeded(n) : n \in 0..MaxLimit}
             /\ ~IsSome(l) => WentDownstream(req)
        ELSE /\ WentDownstream(req) <=>
                    (IsSome(l) /\ Get(l) >= 0 /\ Get(l) <= Get(c.limit))
             /\ ~IsSome(l) => AnsweredWith(req, c, ErrLimitMandatory)
             /\ (IsSome(l) /\ Get(l) > Get(c.limit)) =>
                    AnsweredWith(req, c, ErrLimitExceeded(Get(c.limit)))

\* C26: a negative limit argument means no ceiling: a handler whose last
\* WithLimit option has n < 0 has no max limit whatever the default was,
\* and a handler built without a limit option after SetDefaultLimit(n),
\* n < 0, has none; under such a policy a request with absent limit goes
\* downstream and no request meets the limit-mandatory or limit-exceeded
\* error.  With n >= 0 the max limit is n: exactly the requests with a
\* limit in 0..n go downstream, so WithLimit(0) accepts only limit = 0.
C26_NegativeLimitMeansNoCeiling ==
    [][/\ Constructs =>
             LET c == handlers'[Len(handlers')]
                 a == LimitArgument(pending, setLimitArg)
             IN  /\ IsSome(a) /\ Get(a) < 0 => c.limit = None
                 /\ IsSome(a) /\ Get(a) >= 0 => c.limit = a
       /\ \A r \in DOMAIN reqs' :
             reqs'[r].pc = "done" =>
                 LimitOutcome(reqs'[r], handlers'[reqs'[r].h])]_vars

\* C26 witness: the default has a ceiling of 1, the handler was built with
\* WithLimit(-1), and its request with absent limit went downstream.
C26_Witness ==
    /\ defaultLimit = Some(1)
    /\ Len(handlers) >= 1 /\ Len(reqs) = 1
    /\ LimitArgument(pending, setLimitArg) = Some(0 - 1)
    /\ handlers[reqs[1].h].limit = None
    /\ reqs[1].pc = "done"
    /\ reqs[1].search.Limit = None
    /\ WentDownstream(reqs[1])

\* C26 witness of SetDefaultLimit: a handler built with no option after
\* SetDefaultLimit(-1) let a limit of 2 through.
C26_WitnessDefault ==
    /\ setLimitArg = Some(0 - 1) /\ pending = <<>>
    /\ Len(handlers) >= 1 /\ Len(reqs) = 1
    /\ handlers[reqs[1].h].limit = None
    /\ reqs[1].pc = "done"
    /\ reqs[1].search.Limit = Some(MaxLimit + 1)
    /\ WentDownstream(reqs[1])

\* C26 witness of the ceiling 0: WithLimit(0) let limit = 0 through.
C26_WitnessZero ==
    /\ Len(handlers) >= 1 /\ Len(reqs) = 1
    /\ LimitArgument(pending, setLimitArg) = Some(0)
    /\ handlers[reqs[1].h].limit = Some(0)
    /\ reqs[1].pc = "done"
    /\ reqs[1].search.Limit = Some(0)
    /\ WentDownstream(reqs[1])

(***************************************************************************)
(* The policy of a handler constructed with no options by a program that   *)
(* made no SetDefault* call (lines 312-352, 541-551).                      *)
(***************************************************************************)
\* a search with one order clause on field and nothing else
OrderOn(field) == SearchRequest(None, <<OrderClause(field, "asc")>>, None, None)

\* C27: with no SetDefault* call made and no option supplied, the new
\* handler's policy is: parameter "q", mandatory, no max limit, both
\* logical and all nine relational operators, empty filter-field and
\* order-field allow-sets; so it answers a request without "q" with the
\* missing-parameter error and rejects every search with a filter or an
\* order clause.
C27_PolicyWithoutConfiguration ==
    [][(setCalls = 0 /\ NewSearchHandler(<<>>)) =>
          LET c == handlers'[Len(handlers')]
              p == Policy(c, maps')
          IN  /\ p.queryParam = "q"
              /\ p.isSearchMandatory
              /\ p.limit = None
              /\ p.allowedLogicalOperators = {AndOperator, OrOperator}
              /\ p.allowedRelationalOperators = relationalOperators
              /\ Cardinality(p.allowedRelationalOperators) = 9
              /\ p.allowedFilterFields = {}
              /\ p.allowedOrderFields = {}
              /\ GetParam(NewRequest(Len(handlers'), <<>>), c, <<>>).calls
                    = <<ErrorCall(c, ErrMissingParameter("q"), <<>>)>>
              /\ \A f \in FieldNames :
                    /\ validateSearchRequest(OrderOn(f), c, maps') # nil
                    /\ \A lop \in logicalOperators, op \in relationalOperators :
                          validateSearchRequest(FilterWithOp(lop, f, op), c, maps')
                              # nil]_vars

(***************************************************************************)
(* Order directions (lines 215-250, 611-615): a handler serves a request   *)
(* whose payload holds order clauses with any direction, and the           *)
(* downstream handler calls Symbol() on the directions of the search it    *)
(* finds attached.                                                         *)
(***************************************************************************)
OrderAsc == "asc"
OrderDesc == "desc"

\* lines 221-228
OrderDirectionSymbol(d) == IF d = OrderDesc THEN OrderDesc ELSE OrderAsc

\* the downstream handler calls Symbol() on the direction of order clause i
\* of the search attached to the request it was given
CallOrderDirectionSymbol(r, i) ==
    /\ reqs[r].pc = "done"
    /\ Len(reqs[r].calls) = 1 /\ reqs[r].calls[1].fn = "next"
    /\ IsSome(GetSearchRequest(reqs[r].calls[1].ctx))
    /\ i \in DOMAIN Get(GetSearchRequest(reqs[r].calls[1].ctx)).OrderBy
    /\ Len(symbolCalls) < MaxSymbolCalls
    /\ LET d == Get(GetSearchRequest(reqs[r].calls[1].ctx)).OrderBy[i].Direction
       IN  symbolCalls' = Append(symbolCalls,
                                 [type |-> "OrderDirection", o |-> d, pc |-> "return",
                                  symbol |-> OrderDirectionSymbol(d)])
    /\ UNCHANGED <<defaultQueryParam, defaultSearchMandatory, defaultLimit,
                   defaultErrorHandler, maps, handlers, setCalls, pending, reqs,
                   setLimitArg, otherPackages>>

Directions == {"asc", "desc", "", "sideways", "DESC"}

DirectionOrders ==
    {o \in SeqsUpTo({OrderClause(f, d) : f \in FieldNames, d \in Directions}, MaxOrder) :
        o # <<>>}

\* an order clause written without its direction member
NoDirection(field) ==
    JObj(<<"order_by">>, <<JArr(<<JObj(<<"field">>, <<JStr(field)>>)>>)>>)

DirectionQueries ==
    {[p \in {"q"} |-> <<Encode(SearchRequest(None, o, None, None))>>] :
        o \in DirectionOrders}
    \cup {[p \in {"q"} |-> <<NoDirection(f)>>] : f \in FieldNames}

InitDirection ==
    /\ InitScalars
    /\ setLimitArg = None
    /\ InitOtherPackages
    /\ maps \in PolicyMaps
    /\ handlers = <<PolicyConfig("q", TRUE, None)>>
    /\ \E query \in DirectionQueries : reqs = <<NewRequest(1, query)>>

NextDirection ==
    \/ \E r \in DOMAIN reqs : ServeGetParam(r)
    \/ \E r \in DOMAIN reqs : ServeDecode(r)
    \/ \E r \in DOMAIN reqs : ServeValidate(r)
    \/ \E r \in DOMAIN reqs : ServeNext(r)
    \/ \E r \in DOMAIN reqs, i \in 1..MaxOrder : CallOrderDirectionSymbol(r, i)

SpecDirection == InitDirection /\ [][NextDirection]_vars

\* the order clauses the payload of the request was written from
SentOrder ==
    IF \E o \in DirectionOrders :
          reqs[1].query["q"] = <<Encode(SearchRequest(None, o, None, None))>>
    THEN CHOOSE o \in DirectionOrders :
          reqs[1].query["q"] = <<Encode(SearchRequest(None, o, None, None))>>
    ELSE <<OrderClause(CHOOSE f \in FieldNames : reqs[1].query["q"] = <<NoDirection(f)>>,
                       "")>>

\* C28: validation never looks at the direction of an order clause: a
\* request whose order clauses all have an allowed field goes downstream
\* whatever their directions, the empty one and unknown ones included, with
\* the search attached and every direction as it was sent; and Symbol() of
\* a direction is "desc" for "desc" and "asc" for every other direction.
C28_DirectionNotValidated ==
    /\ (/\ reqs[1].pc = "done"
        /\ \A i \in DOMAIN SentOrder : SentOrder[i].Field \in ThePolicy.allowedOrderFields)
          => /\ WentDownstream(reqs[1])
             /\ reqs[1].search.OrderBy = SentOrder
    /\ \A i \in DOMAIN symbolCalls :
          /\ symbolCalls[i].symbol \in {"asc", "desc"}
          /\ symbolCalls[i].symbol = "desc" <=> symbolCalls[i].o = "desc"

\* C28 witness: a request with directions "sideways" and "" went downstream
\* and Symbol() of "sideways" was "asc".
C28_Witness ==
    /\ reqs[1].pc = "done"
    /\ WentDownstream(reqs[1])
    /\ Len(reqs[1].search.OrderBy) = 2
    /\ reqs[1].search.OrderBy[1].Direction = "sideways"
    /\ reqs[1].search.OrderBy[2].Direction = ""
    /\ \E i \in DOMAIN symbolCalls :
          symbolCalls[i].o = "sideways" /\ symbolCalls[i].symbol = "asc"

\* C28 witness of "desc" and of the direction left out of the payload.
C28_WitnessDesc ==
    /\ reqs[1].pc = "done"
    /\ WentDownstream(reqs[1])
    /\ reqs[1].query["q"] = <<NoDirection("id")>>
    /\ reqs[1].search.OrderBy = <<OrderClause("id", "")>>
    /\ \E i \in DOMAIN symbolCalls :
          symbolCalls[i].o = "" /\ symbolCalls[i].symbol = "asc"

(***************************************************************************)
(* Package utility: Map and MapE (src/utility/slice.go).  A slice is       *)
(* Some(sequence), the nil slice is None.  The function given to a call is *)
(* a record: kind names what it computes, failing the elements for which   *)
(* it returns an error.                                                    *)
(***************************************************************************)
MaxSliceLen == 3
MaxElem == 2

qparamsVars ==
    <<defaultQueryParam, defaultSearchMandatory, defaultLimit, defaultErrorHandler,
      maps, handlers, setCalls, pending, reqs, symbolCalls, setLimitArg>>

\* package qparams as the program starts, with nothing constructed
InitQparams ==
    /\ InitPackage
    /\ handlers = <<>>
    /\ pending = <<>>
    /\ reqs = <<>>
    /\ symbolCalls = <<>>
    /\ setLimitArg = None

\* the zero value of the element type B of the output
Zero(f) == IF f.kind = "itoa" THEN "" ELSE 0

\* f(a): the mapped value and the error
Apply(f, a) ==
    IF a \in f.failing
    THEN [v |-> Zero(f), err |-> "cannot map " \o Itoa(a)]
    ELSE [v |-> IF f.kind = "itoa" THEN Itoa(a) ELSE 2 * a, err |-> nil]

\* a call as it enters mapInternal: line 22, output := make([]B, len(input))
MapCall(fn, input, f) ==
    [fn |-> fn, input |-> input, f |-> f, pc |-> "loop", i |-> 1,
     output |-> [k \in DOMAIN input |-> Zero(f)],
     s |-> None, err |-> nil, called |-> <<>>, result |-> None, error |-> nil]

\* one pass of the loop that goes on to the next element after an error
mapInternalIterationSkipsFailed(c) ==
    LET r == Apply(c.f, c.input[c.i])
    IN  IF r.err # nil
        THEN [c EXCEPT !.called = Append(@, c.input[c.i]), !.err = r.err, !.i = @ + 1]
        ELSE [c EXCEPT !.called = Append(@, c.input[c.i]),
                       !.output[c.i] = r.v, !.i = @ + 1]

\* lines 23-29: one pass of the loop of mapInternal
mapInternalIteration(c) ==
    LET r == Apply(c.f, c.input[c.i])
    IN  IF r.err # nil
        THEN [c EXCEPT !.called = Append(@, c.input[c.i]),
                       !.pc = "returned", !.s = None, !.err = r.err]
        ELSE [c EXCEPT !.called = Append(@, c.input[c.i]),
                       !.output[c.i] = r.v, !.i = @ + 1]

MapInternalLoop(n) ==
    /\ mapCalls[n].pc = "loop"
    /\ mapCalls[n].i <= Len(mapCalls[n].input)
    /\ mapCalls' = [mapCalls EXCEPT ![n] = mapInternalIteration(@)]
    /\ UNCHANGED <<qparamsVars, recoverReqs, loggerReqs, starts>>

\* line 30: return output, nil
MapInternalReturn(n) ==
    /\ mapCalls[n].pc = "loop"
    /\ mapCalls[n].i > Len(mapCalls[n].input)
    /\ mapCalls' = [mapCalls EXCEPT ![n].pc = "returned",
                                    ![n].s = Some(mapCalls[n].output),
                                    ![n].err = nil]
    /\ UNCHANGED <<qparamsVars, recoverReqs, loggerReqs, starts>>

\* lines 13-18
MapEReturn(n) ==
    /\ mapCalls[n].pc = "returned"
    /\ mapCalls[n].fn = "MapE"
    /\ mapCalls' = [mapCalls EXCEPT
                      ![n].pc = "done",
                      ![n].result = IF mapCalls[n].err # nil THEN None ELSE mapCalls[n].s,
                      ![n].error = mapCalls[n].err]
    /\ UNCHANGED <<qparamsVars, recoverReqs, loggerReqs, starts>>

\* lines 5-8: output, _ := mapInternal(...); return output
MapReturn(n) ==
    /\ mapCalls[n].pc = "returned"
    /\ mapCalls[n].fn = "Map"
    /\ mapCalls' = [mapCalls EXCEPT ![n].pc = "done", ![n].result = mapCalls[n].s]
    /\ UNCHANGED <<qparamsVars, recoverReqs, loggerReqs, starts>>

Slices == SeqsUpTo(1..MaxElem, MaxSliceLen)

\* Map wraps its f into a function that returns a nil error (lines 5-7)
MapCalls ==
    {MapCall("MapE", input, [kind |-> k, failing |-> bad]) :
        input \in Slices, k \in {"itoa", "double"}, bad \in SUBSET (1..MaxElem)}
    \cup {MapCall("Map", input, [kind |-> k, failing |-> {}]) :
             input \in Slices, k \in {"itoa", "double"}}

InitMap ==
    /\ InitQparams
    /\ mapCalls \in {<<c>> : c \in MapCalls}
    /\ recoverReqs = <<>>
    /\ loggerReqs = <<>>
    /\ starts = <<>>

NextMap ==
    \/ \E n \in DOMAIN mapCalls : MapInternalLoop(n)
    \/ \E n \in DOMAIN mapCalls : MapInternalReturn(n)
    \/ \E n \in DOMAIN mapCalls : MapEReturn(n)
    \/ \E n \in DOMAIN mapCalls : MapReturn(n)

SpecMap == InitMap /\ [][NextMap]_vars

\* the indices of the input whose element f fails on
FailingAt(c) == {k \in DOMAIN c.input : Apply(c.f, c.input[k]).err # nil}

FirstFailing(c) == CHOOSE k \in FailingAt(c) : \A j \in FailingAt(c) : k <= j

\* C25: MapE calls f on the elements in index order; when no call fails it
\* returns a slice as long as the input with output[i] = f(input[i]) and a
\* nil error; when a call fails it returns the nil slice and the error of
\* the first failing element, and f was called on no element after that
\* one.  Map returns the same element-wise result for its f.
C25_MapEStopsAtFirstError ==
    \A n \in DOMAIN mapCalls :
        LET c == mapCalls[n]
        IN  /\ Len(c.called) <= Len(c.input)
            /\ c.called = SubSeq(c.input, 1, Len(c.called))
            /\ c.pc = "done" =>
                  IF FailingAt(c) = {}
                  THEN /\ c.called = c.input
                       /\ IsSome(c.result)
                       /\ Len(Get(c.result)) = Len(c.input)
                       /\ \A k \in DOMAIN c.input :
                             Get(c.result)[k] = Apply(c.f, c.input[k]).v
                       /\ c.error = nil
                  ELSE /\ c.fn = "MapE"
                       /\ c.result = None
                       /\ c.error = Apply(c.f, c.input[FirstFailing(c)]).err
                       /\ c.called = SubSeq(c.input, 1, FirstFailing(c))

\* C25 witness: MapE returned the error of the second element of three, of
\* which the third fails as well.
C25_Witness ==
    /\ mapCalls[1].fn = "MapE" /\ mapCalls[1].pc = "done"
    /\ mapCalls[1].input = <<1, 2, 1>>
    /\ mapCalls[1].f = [kind |-> "itoa", failing |-> {2}]
    /\ mapCalls[1].result = None
    /\ mapCalls[1].error = "cannot map 2"
    /\ mapCalls[1].called = <<1, 2>>

\* C25 witnesses of success: MapE and Map returned the mapped slices.
C25_WitnessSuccess ==
    /\ mapCalls[1].fn = "MapE" /\ mapCalls[1].pc = "done"
    /\ mapCalls[1].input = <<2, 1>>
    /\ mapCalls[1].f = [kind |-> "itoa", failing |-> {}]
    /\ mapCalls[1].result = Some(<<"2", "1">>)
    /\ mapCalls[1].error = nil

C25_WitnessMap ==
    /\ mapCalls[1].fn = "Map" /\ mapCalls[1].pc = "done"
    /\ mapCalls[1].input = <<2, 1, 2>>
    /\ mapCalls[1].f.kind = "double"
    /\ mapCalls[1].result = Some(<<4, 2, 4>>)

(***************************************************************************)
(* Package recover (src/handlers/recover/recover.go).  A request record    *)
(* holds the config of the handler, the behaviour of the downstream        *)
(* handler, the response writer and the calls made on the logger and on    *)
(* the callback, in order.                                                 *)
(***************************************************************************)
StatusOK == 200
StatusCreated == 201
StatusInternalServerError == 500
StatusBadGateway == 502

\* http.StatusText
StatusText(code) ==
    CASE code = StatusOK -> "OK"
      [] code = StatusCreated -> "Created"
      [] code = StatusInternalServerError -> "Internal Server Error"
      [] code = StatusBadGateway -> "Bad Gateway"
      [] OTHER -> ""

\* an http.ResponseWriter: WriteHeader sets the status once, Write sets it
\* to 200 when it is not set and fails on a writer whose connection is gone
ResponseWriter(failing) ==
    [failing |-> failing, header |-> <<>>, status |-> None, body |-> <<>>]

WriterSetHeader(w, value) == [w EXCEPT !.header = <<value>>]

WriterWriteHeader(w, code) ==
    IF IsSome(w.status) THEN w ELSE [w EXCEPT !.status = Some(code)]

WriterWrite(w, text) ==
    IF w.failing THEN w
    ELSE [WriterWriteHeader(w, StatusOK) EXCEPT !.body = Append(@, text)]

WriteError(w) == IF w.failing THEN "write failed" ELSE nil

\* the options, on the *config (lines 95-136)
RecoverWithLogLevel(level, c) == [c EXCEPT !.Level = level]
RecoverWithIncludeStack(include, c) == [c EXCEPT !.IncludeStack = include]
RecoverWithMessage(msg, c) == [c EXCEPT !.Message = msg]
RecoverWithStatusCode(code, c) == [c EXCEPT !.StatusCode = code]
RecoverWithCallback(f, c) == [c EXCEPT !.Callback = f]

RecoverApplyOption(opt, c) ==
    CASE opt.name = "WithLogLevel" -> RecoverWithLogLevel(opt.level, c)
      [] opt.name = "WithIncludeStack" -> RecoverWithIncludeStack(opt.include, c)
      [] opt.name = "WithMessage" -> RecoverWithMessage(opt.msg, c)
      [] opt.name = "WithStatusCode" -> RecoverWithStatusCode(opt.code, c)
      [] opt.name = "WithCallback" -> RecoverWithCallback(opt.f, c)

RECURSIVE RecoverApplyOpts(_, _)
RecoverApplyOpts(opts, c) ==
    IF opts = <<>> THEN c
    ELSE RecoverApplyOpts(Tail(opts), RecoverApplyOption(Head(opts), c))

\* lines 167-190: the config New builds
RecoverNew(opts) ==
    RecoverApplyOpts(opts,
        [Logger |-> "slog.Default()", Level |-> "ERROR", IncludeStack |-> FALSE,
         Message |-> "recovered from panic",
         StatusCode |-> StatusInternalServerError,
         Callback |-> "defaultCallback"])

\* lines 196-202: the text of the recovered value
PanicText(rec) ==
    CASE rec.type = "error" -> rec.msg
      [] rec.type = "string" -> rec.msg
      [] rec.type = "int" -> Itoa(rec.n)

LogCall(level, msg, attrs) ==
    [fn |-> "LogAttrs", level |-> level, msg |-> msg, attrs |-> attrs]

CallbackCall(f, rec, stack) ==
    [fn |-> "Callback", by |-> f, rec |-> rec, stack |-> stack, attrs |-> <<>>]

\* lines 175-186: the default callback
DefaultCallbackWriter(c, w) ==
    WriterWrite(WriterWriteHeader(WriterSetHeader(w, "application/json"), c.StatusCode),
                "{\"error\":" \o Quote(StatusText(c.StatusCode)) \o "}")

DefaultCallbackEvents(c, w) ==
    IF WriteError(w) # nil
    THEN <<LogCall(c.Level, "failed to send recovery response",
                   <<<<"error", WriteError(w)>>>>)>>
    ELSE <<>>

\* lines 204-212
Stack(c) == IF c.IncludeStack THEN Some("goroutine 1 [running]") ELSE None

RecoverAttrs(c, rec) ==
    <<<<"error", PanicText(rec)>>>>
        \o (IF c.IncludeStack THEN <<<<"stack", Get(Stack(c))>>>> ELSE <<>>)

\* line 222: next.ServeHTTP(w, r); the downstream handler writes what it
\* writes and returns or panics
RECURSIVE WriteAll(_, _)
WriteAll(w, codes) ==
    IF codes = <<>> THEN w
    ELSE WriteAll(WriterWrite(WriterWriteHeader(w, Head(codes)), "hello"), Tail(codes))

RecoverServeNext(r) ==
    /\ recoverReqs[r].pc = "next"
    /\ recoverReqs' = [recoverReqs EXCEPT
          ![r].w = WriteAll(@, recoverReqs[r].next.writes),
          ![r].pc = IF recoverReqs[r].next.panics THEN "deferred" ELSE "done"]
    /\ UNCHANGED <<qparamsVars, mapCalls, loggerReqs, starts>>

\* lines 194-220: the deferred function when recover() returns a value
RecoverDeferred(r) ==
    /\ recoverReqs[r].pc = "deferred"
    /\ LET c == recoverReqs[r].c
           rec == recoverReqs[r].next.rec
           w == recoverReqs[r].w
           logged == <<LogCall(c.Level, c.Message, RecoverAttrs(c, rec))>>
       IN  recoverReqs' = [recoverReqs EXCEPT
              ![r].pc = "done",
              ![r].w = IF c.Callback = "defaultCallback"
                       THEN DefaultCallbackWriter(c, w) ELSE w,
              ![r].events =
                  IF c.Callback = nil THEN logged
                  ELSE IF c.Callback = "defaultCallback"
                  THEN logged \o <<CallbackCall(c.Callback, rec, Stack(c))>>
                              \o DefaultCallbackEvents(c, w)
                  ELSE logged \o <<CallbackCall(c.Callback, rec, Stack(c))>>]
    /\ UNCHANGED <<qparamsVars, mapCalls, loggerReqs, starts>>

RecoverOptions ==
    {[name |-> "WithLogLevel", level |-> "DEBUG"],
     [name |-> "WithIncludeStack", include |-> TRUE],
     [name |-> "WithMessage", msg |-> "oops"],
     [name |-> "WithStatusCode", code |-> StatusBadGateway],
     [name |-> "WithCallback", f |-> "customCallback"],
     [name |-> "WithCallback", f |-> nil]}

PanicValues ==
    {[type |-> "error", msg |-> "boom", n |-> 0],
     [type |-> "string", msg |-> "something went wrong", n |-> 0],
     [type |-> "int", msg |-> "", n |-> 42]}

\* what the downstream handler does: the WriteHeader calls it makes, each
\* followed by a Write, and how it ends
Downstreams ==
    {[writes |-> ws, panics |-> FALSE, rec |-> None] :
        ws \in {<<>>, <<StatusCreated>>}}
    \cup {[writes |-> ws, panics |-> TRUE, rec |-> v] :
             ws \in {<<>>, <<StatusCreated>>}, v \in PanicValues}

InitRecover ==
    /\ InitQparams
    /\ mapCalls = <<>>
    /\ loggerReqs = <<>>
    /\ starts = <<>>
    /\ \E opts \in SeqsUpTo(RecoverOptions, MaxOpts), next \in Downstreams,
          failing \in BOOLEAN :
          recoverReqs = <<[c |-> RecoverNew(opts), next |-> next, pc |-> "next",
                           w |-> ResponseWriter(failing), events |-> <<>>]>>

NextRecover ==
    \/ \E r \in DOMAIN recoverReqs : RecoverServeNext(r)
    \/ \E r \in DOMAIN recoverReqs : RecoverDeferred(r)

SpecRecover == InitRecover /\ [][NextRecover]_vars

EventsOf(req, fn) == SelectSeq(req.events, LAMBDA e : e.fn = fn)

\* C23: a panic of the downstream handler never reaches the caller: the
\* request ends; when the downstream handler panicked the logger was
\* called exactly once, with the configured level and message and the text
\* of the panic value, and then the configured callback exactly once, the
\* default callback writing the configured status code and a JSON error
\* body; when it did not panic neither was called and the response is what
\* the downstream handler wrote.
C23_PanicLoggedOnceThenCallback ==
    \A r \in DOMAIN recoverReqs :
        LET req == recoverReqs[r]
        IN  req.pc = "done" =>
              IF req.next.panics
              THEN /\ Len(EventsOf(req, "LogAttrs")) = 1
                   /\ Len(EventsOf(req, "Callback")) = 1
                   /\ req.events[1] =
                         LogCall(req.c.Level, req.c.Message,
                                 RecoverAttrs(req.c, req.next.rec))
                   /\ req.events[2].fn = "Callback"
                   /\ req.events[2].by = req.c.Callback
              ELSE /\ req.events = <<>>
                   /\ req.w = WriteAll(ResponseWriter(req.w.failing), req.next.writes)

(***************************************************************************)
(* Package logger (src/unnamed/part_001).  A path is the sequence of its   *)
(* pieces, so that strings.HasPrefix is a comparison of sequences.  An     *)
(* attribute is a record: key, and the string (a sequence of pieces too)   *)
(* or the integer it holds.                                                *)
(***************************************************************************)
FieldMethod == "method"
FieldPath == "path"
FieldQuery == "query"
FieldIP == "ip"
FieldUserAgent == "userAgent"
FieldContentLength == "contentLength"
FieldStatus == "status"
FieldDuration == "duration"

StringAttr(key, s) == [key |-> key, kind |-> "string", s |-> s, n |-> 0]
IntAttr(key, n) == [key |-> key, kind |-> "int", s |-> <<>>, n |-> n]

\* strings.HasPrefix
HasPrefix(s, prefix) ==
    Len(prefix) <= Len(s) /\ SubSeq(s, 1, Len(prefix)) = prefix

\* the options, on the *config (lines 96-143)
LoggerWithRequestInLevel(level, c) == [c EXCEPT !.LevelRequestIn = level]
LoggerWithRequestOutLevel(level, c) == [c EXCEPT !.LevelRequestOut = level]
LoggerWithFieldsIn(fields, c) == [c EXCEPT !.FieldsIn = fields]
LoggerWithFieldsOut(fields, c) == [c EXCEPT !.FieldsOut = fields]
LoggerWithSkipPaths(paths, c) == [c EXCEPT !.SkipPaths = @ \o paths]
LoggerWithSkipFunc(fn, c) == [c EXCEPT !.SkipFunc = fn]

LoggerApplyOption(opt, c) ==
    CASE opt.name = "WithRequestInLevel" -> LoggerWithRequestInLevel(opt.level, c)
      [] opt.name = "WithRequestOutLevel" -> LoggerWithRequestOutLevel(opt.level, c)
      [] opt.name = "WithFieldsIn" -> LoggerWithFieldsIn(opt.fields, c)
      [] opt.name = "WithFieldsOut" -> LoggerWithFieldsOut(opt.fields, c)
      [] opt.name = "WithSkipPaths" -> LoggerWithSkipPaths(opt.paths, c)
      [] opt.name = "WithSkipFunc" -> LoggerWithSkipFunc(opt.fn, c)

RECURSIVE LoggerApplyOpts(_, _)
LoggerApplyOpts(opts, c) ==
    IF opts = <<>> THEN c
    ELSE LoggerApplyOpts(Tail(opts), LoggerApplyOption(Head(opts), c))

\* lines 174-190
LoggerNew(opts) ==
    LoggerApplyOpts(opts,
        [Logger |-> "slog.Default()", LevelRequestIn |-> "INFO",
         LevelRequestOut |-> "INFO",
         FieldsIn |-> <<FieldMethod, FieldPath, FieldQuery, FieldIP, FieldUserAgent,
                        FieldContentLength>>,
         FieldsOut |-> <<FieldMethod, FieldPath, FieldStatus, FieldDuration>>,
         SkipPaths |-> <<>>, SkipFunc |-> nil])

\* the functions given to WithSkipFunc
CallSkipFunc(fn, req) ==
    CASE fn = "skipPost" -> req.method = "POST"
      [] OTHER -> FALSE

\* lines 220-232
shouldSkip(req, opt) ==
    \/ opt.SkipFunc # nil /\ CallSkipFunc(opt.SkipFunc, req)
    \/ \E k \in DOMAIN opt.SkipPaths : HasPrefix(req.path, opt.SkipPaths[k])

\* lines 234-259; the query, address, user agent and length of the request
\* and the time are not part of the request record
buildAttr(f, req) ==
    CASE f = FieldMethod -> <<StringAttr("method", <<req.method>>)>>
      [] f = FieldPath -> <<StringAttr("path", req.path)>>
      [] f = FieldQuery -> <<StringAttr("query", <<>>)>>
      [] f = FieldIP -> <<StringAttr("ip", <<"192.0.2.1">>)>>
      [] f = FieldUserAgent -> <<StringAttr("userAgent", <<>>)>>
      [] f = FieldContentLength -> <<IntAttr("contentLength", 0)>>
      [] f = FieldStatus -> <<IntAttr("status", req.statusCode)>>
      [] f = FieldDuration -> <<StringAttr("duration", <<"time.Since(start)">>)>>
      [] OTHER -> <<>>

RECURSIVE buildAttrs(_, _)
buildAttrs(fields, req) ==
    IF fields = <<>> THEN <<>>
    ELSE buildAttr(Head(fields), req) \o buildAttrs(Tail(fields), req)

\* lines 152-155: responseWriter.WriteHeader, for each call of the
\* downstream handler in turn
RECURSIVE WrappedWriteAll(_, _)
WrappedWriteAll(req, codes) ==
    IF codes = <<>> THEN req
    ELSE WrappedWriteAll(
             [req EXCEPT !.statusCode = Head(codes),
                         !.w = WriterWriteHeader(@, Head(codes))],
             Tail(codes))

RECURSIVE WriteHeaderAll(_, _)
WriteHeaderAll(w, codes) ==
    IF codes = <<>> THEN w
    ELSE WriteHeaderAll(WriterWriteHeader(w, Head(codes)), Tail(codes))

NextServeHTTP == [fn |-> "next.ServeHTTP", level |-> "", msg |-> "", attrs |-> <<>>]

\* lines 194-209: skip, or wrap the writer and log the incoming request
LoggerServe(r) ==
    /\ loggerReqs[r].pc = "start"
    /\ LET req == loggerReqs[r]
       IN  loggerReqs' = [loggerReqs EXCEPT ![r] =
              IF shouldSkip(req, req.c)
              THEN [req EXCEPT !.pc = "skipped"]
              ELSE [req EXCEPT
                      !.pc = "next",
                      !.statusCode = StatusOK,
                      !.events = Append(@, LogCall(req.c.LevelRequestIn, "incoming request",
                                                   buildAttrs(req.c.FieldsIn,
                                                              [req EXCEPT !.statusCode = StatusOK])))]]
    /\ UNCHANGED <<qparamsVars, mapCalls, recoverReqs, starts>>

\* lines 195-196: next.ServeHTTP(w, r); return
LoggerSkipNext(r) ==
    /\ loggerReqs[r].pc = "skipped"
    /\ loggerReqs' = [loggerReqs EXCEPT
          ![r].pc = IF loggerReqs[r].next.panics THEN "panicked" ELSE "done",
          ![r].w = WriteHeaderAll(@, loggerReqs[r].next.writes),
          ![r].events = Append(@, NextServeHTTP)]
    /\ UNCHANGED <<qparamsVars, mapCalls, recoverReqs, starts>>

\* line 211: next.ServeHTTP(rw, r)
LoggerNext(r) ==
    /\ loggerReqs[r].pc = "next"
    /\ loggerReqs' = [loggerReqs EXCEPT ![r] =
          [WrappedWriteAll(@, loggerReqs[r].next.writes) EXCEPT
              !.pc = IF loggerReqs[r].next.panics THEN "panicked" ELSE "out",
              !.events = Append(@, NextServeHTTP)]]
    /\ UNCHANGED <<qparamsVars, mapCalls, recoverReqs, starts>>

\* lines 213-215
LoggerOut(r) ==
    /\ loggerReqs[r].pc = "out"
    /\ LET req == loggerReqs[r]
       IN  loggerReqs' = [loggerReqs EXCEPT
              ![r].pc = "done",
              ![r].events = Append(@, LogCall(req.c.LevelRequestOut, "request completed",
                                              buildAttrs(req.c.FieldsOut, req)))]
    /\ UNCHANGED <<qparamsVars, mapCalls, recoverReqs, starts>>

LoggerOptions ==
    {[name |-> "WithRequestInLevel", level |-> "DEBUG"],
     [name |-> "WithRequestOutLevel", level |-> "WARN"],
     [name |-> "WithFieldsIn", fields |-> <<FieldPath>>],
     [name |-> "WithFieldsOut", fields |-> <<FieldStatus, FieldDuration>>],
     [name |-> "WithFieldsOut", fields |-> <<FieldMethod>>],
     [name |-> "WithSkipPaths", paths |-> <<<<"/", "healthz">>>>],
     [name |-> "WithSkipFunc", fn |-> "skipPost"]}

LoggerPaths == {<<"/">>, <<"/", "healthz">>, <<"/", "healthz", "/", "live">>,
                <<"/", "api">>}

\* the WriteHeader calls the downstream handler makes and how it ends
LoggerDownstreams ==
    {[writes |-> ws, panics |-> p] :
        ws \in {<<>>, <<StatusCreated>>, <<StatusCreated, StatusInternalServerError>>},
        p \in BOOLEAN}

InitLogger ==
    /\ InitQparams
    /\ mapCalls = <<>>
    /\ recoverReqs = <<>>
    /\ starts = <<>>
    /\ \E opts \in SeqsUpTo(LoggerOptions, MaxOpts), next \in LoggerDownstreams,
          method \in {"GET", "POST"}, path \in LoggerPaths :
          loggerReqs = <<[c |-> LoggerNew(opts), method |-> method, path |-> path,
                          next |-> next, pc |-> "start", w |-> ResponseWriter(FALSE),
                          statusCode |-> 0, events |-> <<>>]>>

NextLogger ==
    \/ \E r \in DOMAIN loggerReqs : LoggerServe(r)
    \/ \E r \in DOMAIN loggerReqs : LoggerSkipNext(r)
    \/ \E r \in DOMAIN loggerReqs : LoggerNext(r)
    \/ \E r \in DOMAIN loggerReqs : LoggerOut(r)

SpecLogger == InitLogger /\ [][NextLogger]_vars

\* the request is one the handler skips: its SkipFunc says so, or its path
\* starts with a skip prefix
Skipped(req) ==
    \/ req.c.SkipFunc = "skipPost" /\ req.method = "POST"
    \/ \E k \in DOMAIN req.c.SkipPaths :
          \E n \in 0..Len(req.path) : SubSeq(req.path, 1, n) = req.c.SkipPaths[k]

\* the status code of the response the downstream handler produced
WrittenStatus(req) == IF IsSome(req.w.status) THEN Get(req.w.status) ELSE StatusOK

\* C24: for a request that is not skipped and whose downstream handler
\* returns, the handler emits exactly two entries around the one call of
\* the downstream handler: "incoming request" at the request-in level
\* before it, "request completed" at the request-out level after it, the
\* latter carrying the status code the handler wrote, 200 if it wrote
\* none.  For a skipped request it emits no entry and calls the downstream
\* handler exactly once.
C24_TwoEntriesAroundDownstream ==
    \A r \in DOMAIN loggerReqs :
        LET req == loggerReqs[r]
        IN  /\ (req.pc = "done" /\ ~Skipped(req)) =>
                  /\ Len(req.events) = 3
                  /\ req.events[1].fn = "LogAttrs"
                  /\ req.events[1].msg = "incoming request"
                  /\ req.events[1].level = req.c.LevelRequestIn
                  /\ req.events[2] = NextServeHTTP
                  /\ req.events[3].fn = "LogAttrs"
                  /\ req.events[3].msg = "request completed"
                  /\ req.events[3].level = req.c.LevelRequestOut
                  /\ \E k \in DOMAIN req.events[3].attrs :
                        req.events[3].attrs[k] = IntAttr("status", WrittenStatus(req))
            /\ (req.pc \in {"done", "panicked"} /\ Skipped(req)) =>
                  req.events = <<NextServeHTTP>>

(***************************************************************************)
(* Package gracely (src/gracely/gracely.go).  The record of a call of      *)
(* Start holds the position of the calling goroutine, the signal context,  *)
(* the goroutines started for Run and Shutdown of each service, the wait   *)
(* group, the goroutine that closes done, the timer of the select, what    *)
(* was logged, and the time elapsed since the signal, one unit a second.   *)
(* A service's Run and Shutdown may return at any time or never.           *)
(***************************************************************************)
MaxServices == 2
MaxDelay == 2
DefaultTimeout == 10
TimeoutArgs == {0, 1}

\* lines 148-156: the timeout of the config after the options
GracelyWithTimeout(t, c) == [c EXCEPT !.timeout = t]

GracelyConfig(opts) ==
    IF opts = <<>> THEN [logger |-> "noopLogger", timeout |-> DefaultTimeout]
    ELSE GracelyWithTimeout(opts[Len(opts)],
                            [logger |-> "noopLogger", timeout |-> DefaultTimeout])

\* Start(services, opts...) as it reaches line 158; ctx is the context of
\* signal.NotifyContext, done when a signal has arrived
StartCall(n, opts) ==
    [c |-> GracelyConfig(opts), n |-> n, pc |-> "runs", k |-> 1,
     ctxDone |-> FALSE,
     run |-> [i \in 1..n |-> "none"],
     shutdown |-> [i \in 1..n |-> "none"],
     shutdownCtx |-> None, wg |-> 0, waiter |-> "none", timer |-> None,
     elapsed |-> 0, log |-> <<>>, shutdownCalls |-> <<>>]

\* context.WithTimeout(parent, d): a child that is done from the start when
\* the parent is, and else from its deadline on
ContextWithTimeout(parentDone, now, d) ==
    [parentDone |-> parentDone, deadline |-> now + d]

ContextDone(ctx, now) == ctx.parentDone \/ now >= ctx.deadline

gracelyOthers == <<qparamsVars, mapCalls, recoverReqs, loggerReqs>>

\* the signal arrives: NotifyContext cancels ctx
Signal ==
    /\ ~starts[1].ctxDone
    /\ starts[1].pc # "returned"
    /\ starts' = [starts EXCEPT ![1].ctxDone = TRUE]
    /\ UNCHANGED gracelyOthers

\* lines 163-167 and 195-201: wait(&wg, func() { svc.Run(ctx) })
StartSpawnRun ==
    /\ starts[1].pc = "runs"
    /\ starts[1].k <= starts[1].n
    /\ starts' = [starts EXCEPT ![1].wg = @ + 1,
                                ![1].run[starts[1].k] = "spawned",
                                ![1].k = @ + 1]
    /\ UNCHANGED gracelyOthers

\* lines 197-200: the goroutine calls f, and wg.Done() when f returns
RunBegin(i) ==
    /\ starts[1].run[i] = "spawned"
    /\ starts' = [starts EXCEPT ![1].run[i] = "running"]
    /\ UNCHANGED gracelyOthers

RunReturn(i) ==
    /\ starts[1].run[i] = "running"
    /\ starts' = [starts EXCEPT ![1].run[i] = "returned", ![1].wg = @ - 1]
    /\ UNCHANGED gracelyOthers

\* lines 169-173: <-ctx.Done(), the log entry, the shutdown context
\* a Start that goes on to the shutdown when every Run has returned
StartAwaitSignalOrRuns ==
    /\ starts[1].pc = "runs"
    /\ starts[1].k > starts[1].n
    /\ starts[1].ctxDone \/ starts[1].wg = 0
    /\ starts' = [starts EXCEPT
          ![1].pc = "shutdowns",
          ![1].k = 1,
          ![1].log = Append(@, "shutdown signal received"),
          ![1].shutdownCtx =
              Some(ContextWithTimeout(starts[1].ctxDone, starts[1].elapsed,
                                      starts[1].c.timeout))]
    /\ UNCHANGED gracelyOthers

StartAwaitSignal ==
    /\ starts[1].pc = "runs"
    /\ starts[1].k > starts[1].n
    /\ starts[1].ctxDone
    /\ starts' = [starts EXCEPT
          ![1].pc = "shutdowns",
          ![1].k = 1,
          ![1].log = Append(@, "shutdown signal received"),
          ![1].shutdownCtx =
              Some(ContextWithTimeout(starts[1].ctxDone, starts[1].elapsed,
                                      starts[1].c.timeout))]
    /\ UNCHANGED gracelyOthers

\* lines 175-179: wait(&wg, func() { svc.Shutdown(shutdownCtx) })
StartSpawnShutdown ==
    /\ starts[1].pc = "shutdowns"
    /\ starts[1].k <= starts[1].n
    /\ starts' = [starts EXCEPT ![1].wg = @ + 1,
                                ![1].shutdown[starts[1].k] = "spawned",
                                ![1].k = @ + 1]
    /\ UNCHANGED gracelyOthers

\* the goroutine calls svc.Shutdown(shutdownCtx); the record of the call
\* says whether the context was done when the service got it
ShutdownBegin(i) ==
    /\ starts[1].shutdown[i] = "spawned"
    /\ starts' = [starts EXCEPT
          ![1].shutdown[i] = "running",
          ![1].shutdownCalls =
              Append(@, [svc |-> i,
                         done |-> ContextDone(Get(starts[1].shutdownCtx),
                                              starts[1].elapsed),
                         at |-> starts[1].elapsed])]
    /\ UNCHANGED gracelyOthers

ShutdownReturn(i) ==
    /\ starts[1].shutdown[i] = "running"
    /\ starts' = [starts EXCEPT ![1].shutdown[i] = "returned", ![1].wg = @ - 1]
    /\ UNCHANGED gracelyOthers

\* lines 181-190: the done channel, the goroutine that waits for the group,
\* and the timer time.After starts as the select is entered
StartSelect ==
    /\ starts[1].pc = "shutdowns"
    /\ starts[1].k > starts[1].n
    /\ starts' = [starts EXCEPT
          ![1].pc = "select",
          ![1].waiter = "waiting",
          ![1].timer = Some(starts[1].elapsed + starts[1].c.timeout)]
    /\ UNCHANGED gracelyOthers

\* lines 182-185: wg.Wait() returns when the counter is 0; close(done)
WaiterClose ==
    /\ starts[1].waiter = "waiting"
    /\ starts[1].wg = 0
    /\ starts' = [starts EXCEPT ![1].waiter = "closed"]
    /\ UNCHANGED gracelyOthers

\* lines 188-189
StartDone ==
    /\ starts[1].pc = "select"
    /\ starts[1].waiter = "closed"
    /\ starts' = [starts EXCEPT ![1].pc = "returned",
                                ![1].log = Append(@, "graceful shutdown completed")]
    /\ UNCHANGED gracelyOthers

\* lines 190-191
\* a select whose timeout case waits for the goroutines as well
StartTimeoutAfterDone ==
    /\ starts[1].pc = "select"
    /\ starts[1].waiter = "closed"
    /\ starts[1].elapsed >= Get(starts[1].timer)
    /\ starts' = [starts EXCEPT ![1].pc = "returned",
                                ![1].log = Append(@, "forced shutdown: timeout reached")]
    /\ UNCHANGED gracelyOthers

StartTimeout ==
    /\ starts[1].pc = "select"
    /\ starts[1].elapsed >= Get(starts[1].timer)
    /\ starts' = [starts EXCEPT ![1].pc = "returned",
                                ![1].log = Append(@, "forced shutdown: timeout reached")]
    /\ UNCHANGED gracelyOthers

\* a second passes; the time before the select is entered is bounded, the
\* time in the select runs up to the timer
Tick ==
    /\ starts[1].ctxDone
    /\ starts[1].pc # "returned"
    /\ IF starts[1].pc = "select"
       THEN starts[1].elapsed < Get(starts[1].timer)
       ELSE starts[1].elapsed < MaxDelay
    /\ starts' = [starts EXCEPT ![1].elapsed = @ + 1]
    /\ UNCHANGED gracelyOthers

InitGracely ==
    /\ InitQparams
    /\ mapCalls = <<>>
    /\ recoverReqs = <<>>
    /\ loggerReqs = <<>>
    /\ \E n \in 0..MaxServices, opts \in SeqsUpTo(TimeoutArgs, 1) :
          starts = <<StartCall(n, opts)>>

NextGracely ==
    \/ Signal
    \/ StartSpawnRun
    \/ \E i \in 1..MaxServices : i <= starts[1].n /\ RunBegin(i)
    \/ \E i \in 1..MaxServices : i <= starts[1].n /\ RunReturn(i)
    \/ StartAwaitSignal
    \/ StartSpawnShutdown
    \/ \E i \in 1..MaxServices : i <= starts[1].n /\ ShutdownBegin(i)
    \/ \E i \in 1..MaxServices : i <= starts[1].n /\ ShutdownReturn(i)
    \/ StartSelect
    \/ WaiterClose
    \/ StartDone
    \/ StartTimeout
    \/ Tick

SpecGracely == InitGracely /\ [][NextGracely]_vars

\* C22: the context Start passes to Shutdown is governed by the timeout: it
\* is not yet done when Shutdown is invoked, and it is done only once the
\* configured timeout has elapsed since the signal.
C22_ShutdownContextLive ==
    /\ \A j \in DOMAIN starts[1].shutdownCalls : ~starts[1].shutdownCalls[j].done
    /\ (IsSome(starts[1].shutdownCtx)
        /\ ContextDone(Get(starts[1].shutdownCtx), starts[1].elapsed))
          => starts[1].elapsed >= starts[1].c.timeout

\* C29: Start starts Run of every service, each in a goroutine of its own;
\* before the signal it neither returns nor calls Shutdown of a service,
\* whatever the Run calls have done and however many services there are;
\* after the signal it calls Shutdown of each service exactly once.
C29_ShutdownOnlyAfterSignal ==
    LET s == starts[1]
    IN  /\ ~s.ctxDone =>
              /\ s.pc = "runs"
              /\ \A i \in 1..s.n : s.shutdown[i] = "none"
              /\ s.shutdownCalls = <<>>
        /\ (s.pc # "runs" \/ s.k > s.n) => \A i \in 1..s.n : s.run[i] # "none"
        /\ s.pc \in {"select", "returned"} => \A i \in 1..s.n : s.shutdown[i] # "none"
        /\ \A i \in 1..s.n :
              /\ Cardinality({j \in DOMAIN s.shutdownCalls : s.shutdownCalls[j].svc = i})
                    = IF s.shutdown[i] \in {"running", "returned"} THEN 1 ELSE 0
        /\ s.wg = Cardinality({i \in 1..s.n : s.run[i] \in {"spawned", "running"}})
                    + Cardinality({i \in 1..s.n : s.shutdown[i] \in {"spawned", "running"}})

\* C29 witness: no signal yet, the Run of both services has returned, and
\* Start is still waiting.
C29_Witness ==
    /\ starts[1].n = 2
    /\ ~starts[1].ctxDone
    /\ starts[1].run = <<"returned", "returned">>
    /\ starts[1].pc = "runs" /\ starts[1].k = 3

\* C29 witnesses: both Run calls in progress at once; Shutdown of both
\* services called once each after the signal; no service at all.
C29_WitnessConcurrent ==
    /\ starts[1].n = 2
    /\ starts[1].run = <<"running", "running">>

C29_WitnessShutdown ==
    /\ starts[1].n = 2
    /\ starts[1].pc = "returned"
    /\ Len(starts[1].shutdownCalls) = 2
    /\ starts[1].shutdownCalls[1].svc = 2
    /\ starts[1].shutdownCalls[2].svc = 1

C29_WitnessEmpty ==
    /\ starts[1].n = 0
    /\ starts[1].pc = "returned"
    /\ starts[1].log = <<"shutdown signal received", "graceful shutdown completed">>

(***************************************************************************)
(* Start under the scheduling its liveness rests on: the goroutine of      *)
(* Start and the goroutine that waits for the group get to run, and time   *)
(* passes.  Nothing is assumed of the services: the goroutines of Run and  *)
(* Shutdown may never be scheduled and the calls may never return.         *)
(***************************************************************************)
SpecGracelyFair ==
    /\ SpecGracely
    /\ WF_vars(StartSpawnRun)
    /\ WF_vars(StartAwaitSignal)
    /\ WF_vars(StartSpawnShutdown)
    /\ WF_vars(StartSelect)
    /\ WF_vars(WaiterClose)
    /\ WF_vars(StartDone \/ StartTimeout)
    /\ WF_vars(Tick)

Finished(s) ==
    \A i \in 1..s.n : s.run[i] = "returned" /\ s.shutdown[i] = "returned"

\* C30: after the signal Start eventually returns, even when a Run or a
\* Shutdown never returns; it returns when every Run and Shutdown
\* goroutine has finished, logging "graceful shutdown completed", or when
\* the timeout has elapsed in the select, logging "forced shutdown:
\* timeout reached", and it logs exactly one of the two messages.
C30_StartReturnsAfterSignal ==
    /\ [](starts[1].ctxDone => <>(starts[1].pc = "returned"))
    /\ [](LET s == starts[1]
          IN  /\ s.pc # "returned" =>
                    s.log \in {<<>>, <<"shutdown signal received">>}
              /\ s.pc = "returned" =>
                    \/ /\ s.log = <<"shutdown signal received",
                                    "graceful shutdown completed">>
                       /\ Finished(s)
                    \/ /\ s.log = <<"shutdown signal received",
                                    "forced shutdown: timeout reached">>
                       /\ s.elapsed = Get(s.timer)
                       /\ s.elapsed >= s.c.timeout)

\* C30 witness: Start has returned by the timeout while the Run of a
\* service and the Shutdown of another are still in progress.
C30_Witness ==
    /\ starts[1].n = 2
    /\ starts[1].pc = "returned"
    /\ starts[1].run[1] = "running"
    /\ starts[1].shutdown[2] = "running"
    /\ starts[1].log = <<"shutdown signal received", "forced shutdown: timeout reached">>
    /\ starts[1].elapsed >= DefaultTimeout

\* C30 witness of the other message, with two services.
C30_WitnessCompleted ==
    /\ starts[1].n = 2
    /\ starts[1].pc = "returned"
    /\ Finished(starts[1])
    /\ starts[1].log = <<"shutdown signal received", "graceful shutdown completed">>
    /\ starts[1].elapsed < starts[1].c.timeout

====
